---- MODULE Spec2Model ----
(***************************************************************************)
(* A model of egibs/reconcile: identity extraction (Soname, Script,        *)
(* Embedded, Suffix, Spans, Equal), the two-level hash (Hash, HashAll),    *)
(* the claim bitset (TryMark, IsMarked) and the parallel reconciler diffP  *)
(* with its fork/join phases.                                              *)
(*                                                                         *)
(* Representation of machine values:                                       *)
(*  - a byte string is a sequence of byte values 0..255; Go's zero-based   *)
(*    bs[i] is B(bs, i);                                                   *)
(*  - a uint64 hash is a record [flag, low]: flag is bit 63 (ExactFlag),   *)
(*    low the remaining 63 bits (the modelled hash functions only produce  *)
(*    small values of low);                                                *)
(*  - a uint32 is written as its int32 bit pattern, so the sentinel        *)
(*    0xFFFFFFFF is -1 and unsigned order is ULt;                          *)
(*  - an atomic.Uint64 word of the bitset is the set of its set bits.      *)
(***************************************************************************)
EXTENDS Integers, Sequences, FiniteSets, TLC

(***************************************************************************)
(* Bounds of the model.                                                    *)
(***************************************************************************)
MaxLen == 2
MaxWorkers == 2
\* The goroutines that call TryMark at the same time.
MaxCallers == 3
\* The version numbers 1..MaxVer that the test inputs are built with.
MaxVer == 2
\* The longest of the short strings the matchers are run on.
MaxShort == 5
\* The longest entry list of a Result that is iterated over.
MaxEntries == 3

(***************************************************************************)
(* Small helpers.                                                          *)
(***************************************************************************)
Min(a, b) == IF a < b THEN a ELSE b
Max(a, b) == IF a > b THEN a ELSE b

\* Go's zero-based bs[i].
B(bs, i) == bs[i + 1]

\* Go's bs[lo:hi].
Slice(bs, lo, hi) == SubSeq(bs, lo + 1, hi)

\* c-'0' < 10 on bytes (uint8 arithmetic wraps).
IsDigit(c) == ((c - 48) % 256) < 10

\* (c|32)-'a' < 26 on bytes.
IsLetter(c) == (((IF (c \div 32) % 2 = 1 THEN c ELSE c + 32) - 97) % 256) < 26

(***************************************************************************)
(* Pattern matchers (internal/identity).                                   *)
(***************************************************************************)
\* The scan that stops one index early, at i = 4.
RECURSIVE SonameLoopTo4(_, _)
SonameLoopTo4(bs, i) ==
    IF i < 4 THEN 0
    ELSE IF /\ B(bs, i) = 46
            /\ IsDigit(B(bs, i + 1))
            /\ B(bs, i - 1) = 111
            /\ B(bs, i - 2) = 115
            /\ B(bs, i - 3) = 46
         THEN i
         ELSE SonameLoopTo4(bs, i - 1)

RECURSIVE SonameLoop(_, _)
SonameLoop(bs, i) ==
    IF i < 3 THEN 0
    ELSE IF /\ B(bs, i) = 46
            /\ IsDigit(B(bs, i + 1))
            /\ B(bs, i - 1) = 111
            /\ B(bs, i - 2) = 115
            /\ B(bs, i - 3) = 46
         THEN i
         ELSE SonameLoop(bs, i - 1)

Soname(bs) == SonameLoop(bs, Len(bs) - 2)

\* The last extension separator: for i := length-1; i > 0; i--.
RECURSIVE LastDot(_, _)
LastDot(bs, i) ==
    IF i <= 0 THEN -1
    ELSE IF B(bs, i) = 46 THEN i
    ELSE LastDot(bs, i - 1)

\* The backward scan over digits and dots; returns <<i, dots>>.
RECURSIVE VersionScan(_, _, _)
VersionScan(bs, i, dots) ==
    IF i >= 0 /\ (IsDigit(B(bs, i)) \/ B(bs, i) = 46)
    THEN VersionScan(bs, i - 1, IF B(bs, i) = 46 THEN dots + 1 ELSE dots)
    ELSE <<i, dots>>

Embedded(bs) ==
    LET length == Len(bs) IN
    IF length < 9 THEN <<0, 0>>
    ELSE LET ext == LastDot(bs, length - 1) IN
         IF ext < 6 \/ ext = length - 1 THEN <<0, 0>>
         ELSE LET r == VersionScan(bs, ext - 1, 0)
                  i == r[1]
                  dots == r[2]
              IN IF /\ dots >= 2
                    /\ i >= 0
                    /\ B(bs, i + 1) = 46
                    /\ IsDigit(B(bs, i + 2))
                 THEN <<i + 1, ext>>
                 ELSE <<0, 0>>

\* ".post-deinstall", ".post-install", ".post-upgrade", ".pre-install",
\* ".pre-upgrade", ".trigger"
suffixes ==
    << <<46, 112, 111, 115, 116, 45, 100, 101, 105, 110, 115, 116, 97, 108, 108>>,
       <<46, 112, 111, 115, 116, 45, 105, 110, 115, 116, 97, 108, 108>>,
       <<46, 112, 111, 115, 116, 45, 117, 112, 103, 114, 97, 100, 101>>,
       <<46, 112, 114, 101, 45, 105, 110, 115, 116, 97, 108, 108>>,
       <<46, 112, 114, 101, 45, 117, 112, 103, 114, 97, 100, 101>>,
       <<46, 116, 114, 105, 103, 103, 101, 114>> >>

\* for _, suffix := range suffixes: the start of the first suffix that matches.
RECURSIVE ScriptStart(_, _)
ScriptStart(bs, k) ==
    IF k > Len(suffixes) THEN 0
    ELSE LET suffix == suffixes[k]
             length == Len(bs)
         IN IF /\ length > Len(suffix)
               /\ Slice(bs, length - Len(suffix), length) = suffix
            THEN length - Len(suffix)
            ELSE ScriptStart(bs, k + 1)

\* for i := start - 2; i >= 4; i--: the ".Q1" triplet.
RECURSIVE ChecksumStart(_, _)
ChecksumStart(bs, i) ==
    IF i < 4 THEN -1
    ELSE IF /\ B(bs, i) = 46
            /\ i + 2 < Len(bs)
            /\ B(bs, i + 1) = 81
            /\ B(bs, i + 2) = 49
         THEN i
         ELSE ChecksumStart(bs, i - 1)

\* for i := checksumStart - 1; i >= 1; i--: the "-VERSION" boundary.
RECURSIVE PkgEnd(_, _, _)
PkgEnd(bs, i, checksumStart) ==
    IF i < 1 THEN 0
    ELSE IF /\ B(bs, i) = 45
            /\ i + 1 < checksumStart
            /\ IsDigit(B(bs, i + 1))
         THEN i
         ELSE PkgEnd(bs, i - 1, checksumStart)

Script(bs) ==
    LET length == Len(bs) IN
    IF length < 20 THEN <<0, 0>>
    ELSE LET start == ScriptStart(bs, 1) IN
         IF start = 0 THEN <<0, 0>>
         ELSE LET checksumStart == ChecksumStart(bs, start - 2) IN
              IF checksumStart < 0 THEN <<0, 0>>
              ELSE LET i == PkgEnd(bs, checksumStart - 1, checksumStart) IN
                   IF i > 0 THEN <<i, start>> ELSE <<0, 0>>

\* for i >= 0 && bs[i]-'0' < 10 { i-- }
RECURSIVE SkipDigits(_, _)
SkipDigits(bs, i) ==
    IF i >= 0 /\ IsDigit(B(bs, i)) THEN SkipDigits(bs, i - 1) ELSE i

\* A backward scan that goes on through every byte.
RECURSIVE SuffixScanAny(_, _)
SuffixScanAny(bs, i) ==
    IF i < 0 THEN 0
    ELSE IF B(bs, i) = 45 /\ i + 1 < Len(bs) /\ IsDigit(B(bs, i + 1)) THEN i
    ELSE SuffixScanAny(bs, i - 1)

\* The backward scan for "-N".
RECURSIVE SuffixScan(_, _)
SuffixScan(bs, i) ==
    IF i < 0 THEN 0
    ELSE LET c == B(bs, i) IN
         IF c = 45 /\ i + 1 < Len(bs) /\ IsDigit(B(bs, i + 1)) THEN i
         ELSE IF IsDigit(c) \/ c = 46 \/ c = 45 \/ c = 43 \/ IsLetter(c)
              THEN SuffixScan(bs, i - 1)
              ELSE 0

Suffix(bs) ==
    LET length == Len(bs)
        i0 == length - 1
        i1 == IF i0 > 2 /\ IsDigit(B(bs, i0))
              THEN LET k == SkipDigits(bs, i0) IN
                   IF k > 0 /\ B(bs, k) = 114 /\ B(bs, k - 1) = 45
                   THEN k - 2 ELSE k
              ELSE i0
    IN SuffixScan(bs, i1)

\* Spans with the end of a Script's second span put before its start.
SpansEndFirst(bs) ==
    LET length == Len(bs) IN
    IF Soname(bs) > 0 THEN <<Soname(bs), 0, 0>>
    ELSE IF Script(bs)[1] > 0 THEN <<Script(bs)[1], length, Script(bs)[2]>>
    ELSE IF Embedded(bs)[1] > 0 THEN <<Embedded(bs)[1], Embedded(bs)[2], length>>
    ELSE IF Suffix(bs) > 0 THEN <<Suffix(bs), 0, 0>>
    ELSE <<length, 0, 0>>

\* Spans with Suffix tried before Script and Embedded.
SpansSuffixFirst(bs) ==
    LET length == Len(bs) IN
    IF Soname(bs) > 0 THEN <<Soname(bs), 0, 0>>
    ELSE IF Suffix(bs) > 0 THEN <<Suffix(bs), 0, 0>>
    ELSE IF Script(bs)[1] > 0 THEN <<Script(bs)[1], Script(bs)[2], length>>
    ELSE IF Embedded(bs)[1] > 0 THEN <<Embedded(bs)[1], Embedded(bs)[2], length>>
    ELSE <<length, 0, 0>>

Spans(bs) ==
    LET length == Len(bs) IN
    IF Soname(bs) > 0 THEN <<Soname(bs), 0, 0>>
    ELSE IF Script(bs)[1] > 0 THEN <<Script(bs)[1], Script(bs)[2], length>>
    ELSE IF Embedded(bs)[1] > 0 THEN <<Embedded(bs)[1], Embedded(bs)[2], length>>
    ELSE IF Suffix(bs) > 0 THEN <<Suffix(bs), 0, 0>>
    ELSE <<length, 0, 0>>

\* The first span of a compared with as many leading bytes of b, whatever
\* the spans of b are.
EqualFirstSpanOfA(a, b) ==
    LET o == Spans(a)
    IN Slice(a, 0, o[1]) = Slice(b, 0, Min(o[1], Len(b)))

Equal(a, b) ==
    LET o == Spans(a)
        c == Spans(b)
    IN IF o[1] # c[1] \/ o[3] - o[2] # c[3] - c[2] THEN FALSE
       ELSE /\ Slice(a, 0, o[1]) = Slice(b, 0, c[1])
            /\ Slice(a, o[2], o[3]) = Slice(b, c[2], c[3])

(***************************************************************************)
(* Hash (internal/identity).  maphash.Bytes is the standard library's      *)
(* seeded hash; the model offers one function per seed: seed 0 is          *)
(* collision-free on the names used here, seed 1 is constant, so that      *)
(* every pair of strings collides.  Bit 63 of the raw value is set for     *)
(* strings of odd length.                                                  *)
(***************************************************************************)
Seeds == {0, 1}

RECURSIVE Poly(_, _, _)
Poly(bs, k, m) == IF k = 0 THEN 0 ELSE (Poly(bs, k - 1, m) * 31 + bs[k]) % m

Bytes(sd, bs) ==
    [flag |-> Len(bs) % 2,
     low  |-> Poly(bs, Len(bs), IF sd = 0 THEN 1000003 ELSE 1)]

\* The hash left as it is.
KeepExactFlag(h) == h

\* h &^ ExactFlag and h | ExactFlag.
ClearExactFlag(h) == [h EXCEPT !.flag = 0]
SetExactFlag(h) == [h EXCEPT !.flag = 1]

RECURSIVE XorNat(_, _)
XorNat(a, b) ==
    IF a = 0 THEN b
    ELSE IF b = 0 THEN a
    ELSE ((a + b) % 2) + 2 * XorNat(a \div 2, b \div 2)

\* a ^ b on uint64.
Xor64(a, b) == [flag |-> (a.flag + b.flag) % 2, low |-> XorNat(a.low, b.low)]

\* Hash without its Suffix case: "-VERSION" names are hashed whole.
HashNoSuffix(s, sd) ==
    LET length == Len(s)
        exact == ClearExactFlag(Bytes(sd, s))
    IN IF length = 0 THEN <<exact, exact>>
       ELSE IF Soname(s) > 0
            THEN <<ClearExactFlag(Bytes(sd, Slice(s, 0, Soname(s)))), exact>>
       ELSE IF Script(s)[1] > 0
            THEN <<ClearExactFlag(Xor64(Bytes(sd, Slice(s, 0, Script(s)[1])),
                                        Bytes(sd, Slice(s, Script(s)[2], length)))),
                   exact>>
       ELSE IF Embedded(s)[1] > 0
            THEN <<ClearExactFlag(Xor64(Bytes(sd, Slice(s, 0, Embedded(s)[1])),
                                        Bytes(sd, Slice(s, Embedded(s)[2], length)))),
                   exact>>
       ELSE <<exact, exact>>

\* Returns <<identity hash, exact hash>>.
Hash(s, sd) ==
    LET length == Len(s)
        exact == ClearExactFlag(Bytes(sd, s))
    IN IF length = 0 THEN <<exact, exact>>
       ELSE IF Soname(s) > 0
            THEN <<ClearExactFlag(Bytes(sd, Slice(s, 0, Soname(s)))), exact>>
       ELSE IF Script(s)[1] > 0
            THEN <<ClearExactFlag(Xor64(Bytes(sd, Slice(s, 0, Script(s)[1])),
                                        Bytes(sd, Slice(s, Script(s)[2], length)))),
                   exact>>
       ELSE IF Embedded(s)[1] > 0
            THEN <<ClearExactFlag(Xor64(Bytes(sd, Slice(s, 0, Embedded(s)[1])),
                                        Bytes(sd, Slice(s, Embedded(s)[2], length)))),
                   exact>>
       ELSE IF Suffix(s) > 0
            THEN <<ClearExactFlag(Bytes(sd, Slice(s, 0, Suffix(s)))), exact>>
       ELSE <<exact, exact>>

\* The zero value of a uint64.
Zero64 == [flag |-> 0, low |-> 0]

\* a / b on Go ints, b # 0: the quotient truncated toward zero.
Quo(a, b) ==
    LET abs(x) == IF x < 0 THEN 0 - x ELSE x
    IN IF (a < 0) = (b < 0) THEN abs(a) \div abs(b) ELSE 0 - (abs(a) \div abs(b))

\* chunk := max(1, (length+workers-1)/workers)
ChunkOf(length, nworkers) == Max(1, Quo(length + nworkers - 1, nworkers))

\* Index i lies in the chunk [low, high) of a worker that the loop
\* "for w := range workers" starts before its first "low >= length".
Covered(i, length, nworkers, chunk) ==
    \E w \in 0..(nworkers - 1) :
        /\ w * chunk < length
        /\ w * chunk <= i
        /\ i < Min(w * chunk + chunk, length)

\* Returns <<idMatch, exMatch>>, two arrays index-parallel with files.
HashAll(files, nworkers, sd) ==
    LET length == Len(files)
        chunk == ChunkOf(length, nworkers)
        at(i, k) == IF Covered(i, length, nworkers, chunk)
                    THEN Hash(files[i + 1], sd)[k] ELSE Zero64
    IN <<[n \in 1..length |-> at(n - 1, 1)], [n \in 1..length |-> at(n - 1, 2)]>>

(***************************************************************************)
(* Constants of pkg/files.                                                 *)
(***************************************************************************)
null == -1
shardBits == 8
numShards == 2 ^ shardBits
shardMask == numShards - 1

Unchanged == 0
Updated == 1
Removed == 2
Added == 3

\* Unsigned order on uint32 bit patterns.
ULt(a, b) == IF (a < 0) = (b < 0) THEN a < b ELSE b < 0

\* The file names the reconciler is run on:
\* "a.so.1", "a.so.2" (one identity, "a.so") and "b-1" (identity "b").
Names ==
    { <<97, 46, 115, 111, 46, 49>>,
      <<97, 46, 115, 111, 46, 50>>,
      <<98, 45, 49>> }

Lists == UNION {[1..n -> Names] : n \in 0..MaxLen}

(***************************************************************************)
(* State of one diffP call.                                                *)
(***************************************************************************)
VARIABLES
    old, cur, workers, seed,    \* the arguments of diffP and the package seed
    pc,                         \* where the calling goroutine is
    oldHashes, oldEntries,      \* HashAll(old, workers, seed)
    curHashes, curEntries,      \* HashAll(cur, workers, seed)
    shards,                     \* shard index -> map (key -> file index)
    locked,                     \* the shards whose mutex is held
    matches,                    \* the claim bitset, one set of bits per word
    wpc,                        \* where each worker goroutine is
    wi,                         \* each worker's loop index i
    tmOld,                      \* TryMark's local old of each worker
    entries, status,            \* each worker's local buffer and counters
    results, counts, additions, \* the per-worker slots of the caller
    result,                     \* the Result returned
    prev,                       \* the Results of the earlier calls on these inputs
    arg, ret                    \* a test function's inputs and what it observed

vars ==
    <<old, cur, workers, seed, pc, oldHashes, oldEntries, curHashes,
      curEntries, shards, locked, matches, wpc, wi, tmOld, entries, status,
      results, counts, additions, result, prev, arg, ret>>

oldFiles == Len(old)
newFiles == Len(cur)
Workers == 0..(workers - 1)

NoCounts == [s \in 0..2 |-> 0]
EmptyResult == [E |-> <<>>, C |-> [s \in 0..3 |-> 0]]

\* The locals of a diffP call that has not begun.
NoCall ==
    /\ oldHashes = <<>> /\ oldEntries = <<>>
    /\ curHashes = <<>> /\ curEntries = <<>>
    /\ shards = <<>>
    /\ locked = {}
    /\ matches = <<>>
    /\ wpc = [w \in Workers |-> "idle"]
    /\ wi = [w \in Workers |-> 0]
    /\ tmOld = [w \in Workers |-> {}]
    /\ entries = [w \in Workers |-> <<>>]
    /\ status = [w \in Workers |-> NoCounts]
    /\ results = [w \in Workers |-> <<>>]
    /\ counts = [w \in Workers |-> NoCounts]
    /\ additions = [w \in Workers |-> <<>>]
    /\ result = EmptyResult

Fresh == pc = "start" /\ NoCall

\* A call diffP(old, cur, workers) with workers drawn from ws.
InitWith(ws) ==
    /\ old \in Lists
    /\ cur \in Lists
    /\ workers \in ws
    /\ seed \in Seeds
    /\ Fresh
    /\ prev = <<>>
    /\ arg = <<>>
    /\ ret = <<>>

Init == InitWith(1..MaxWorkers)

(***************************************************************************)
(* Shard table and claim bitset.                                           *)
(***************************************************************************)
\* h & shardMask
ShardIdx(h) == h.low % (shardMask + 1)

\* shards[s].m
ShardMap(s) == IF s \in DOMAIN shards THEN shards[s] ELSE <<>>

\* m[k] = v
MapPut(m, k, v) == [x \in DOMAIN m \cup {k} |-> IF x = k THEN v ELSE m[x]]

\* idx, bit := j>>6, uint64(1)<<(j&63)
WordIdx(j) == j \div 64
BitPos(j) == j % 64

\* A test of the bit that never finds it set.
NeverMarked(v, j) == FALSE

\* v[j>>6].Load()&(1<<(j&63)) != 0
IsMarked(v, j) == BitPos(j) \in v[WordIdx(j)]

\* A plain store in place of the compare-and-swap.
CASAlways(word, expected) == TRUE

\* A compare-and-swap that fails whatever the word holds.
CASNever(word, expected) == FALSE

\* v[idx].CompareAndSwap(old, old|bit) succeeds.
CASSucceeds(word, expected) == word = expected

\* A join that does not wait for the workers.
NoWait == TRUE

\* All workers of the current phase have returned: wg.Wait() is released.
AllIdle == \A w \in Workers : wpc[w] = "idle"

\* The three chunk sizes of diffP.
chunk2 == ChunkOf(newFiles, workers)
chunk3 == ChunkOf(newFiles, workers)
\* The additions chunk sized from the old list.
chunk4FromOld == ChunkOf(oldFiles, workers)
chunk4 == ChunkOf(newFiles, workers)

\* The workers a phase starts over n indices, and where each begins.
Spawn(n, chunk, label) ==
    [w \in Workers |-> IF w * chunk < n THEN label ELSE "idle"]
Lows(n, chunk) ==
    [w \in Workers |-> IF w * chunk < n THEN w * chunk ELSE 0]
High(w, n, chunk) == Min(w * chunk + chunk, n)

(***************************************************************************)
(* diffP, up to the start of Phase 2: the empty case, HashAll on both      *)
(* lists, the empty shard table, and the population workers.               *)
(***************************************************************************)
\* A seed made anew by every call.
FreshSeed == (seed + Len(prev)) % 2

\* var seed = maphash.MakeSeed(): made once, when the package is loaded.
CallSeed == seed

Start ==
    /\ pc = "start"
    /\ IF oldFiles = 0 /\ newFiles = 0
       THEN /\ pc' = "done"
            /\ result' = EmptyResult
            /\ UNCHANGED <<oldHashes, oldEntries, curHashes, curEntries, wpc, wi>>
       ELSE IF workers = 0
       THEN \* HashAll divides by workers: integer divide by zero
            /\ pc' = "panic"
            /\ UNCHANGED <<oldHashes, oldEntries, curHashes, curEntries, wpc, wi,
                           result>>
       ELSE /\ pc' = "populate"
            /\ oldHashes' = HashAll(old, workers, CallSeed)[1]
            /\ oldEntries' = HashAll(old, workers, CallSeed)[2]
            /\ curHashes' = HashAll(cur, workers, CallSeed)[1]
            /\ curEntries' = HashAll(cur, workers, CallSeed)[2]
            /\ wpc' = Spawn(newFiles, chunk2, "lock")
            /\ wi' = Lows(newFiles, chunk2)
            /\ UNCHANGED result
    /\ UNCHANGED <<prev, arg, ret, old, cur, workers, seed, shards, locked, matches, tmOld,
                   entries, status, results, counts, additions>>

(***************************************************************************)
(* Phase 2: a population worker, one cur index per critical section.       *)
(***************************************************************************)
P2Lock(w) ==
    /\ pc = "populate"
    /\ wpc[w] = "lock"
    /\ LET s == ShardIdx(curHashes[wi[w] + 1]) IN
        /\ s \notin locked
        /\ locked' = locked \cup {s}
    /\ wpc' = [wpc EXCEPT ![w] = "store"]
    /\ UNCHANGED <<prev, arg, ret, old, cur, workers, seed, pc, oldHashes, oldEntries,
                   curHashes, curEntries, shards, matches, wi, tmOld, entries,
                   status, results, counts, additions, result>>

\* An identity key that takes its last writer.
PutIdentityLast(m, idKey, fileIdx) == MapPut(m, idKey, fileIdx)

\* The identity key keeps its first writer.
PutIdentity(m, idKey, fileIdx) ==
    IF idKey \in DOMAIN m THEN m ELSE MapPut(m, idKey, fileIdx)

\* A critical section that leaves the exact key out.
KeepExact(m, exKey, fileIdx) == m

\* The exact key takes its last writer.
PutExact(m, exKey, fileIdx) == MapPut(m, exKey, fileIdx)

P2Store(w) ==
    /\ pc = "populate"
    /\ wpc[w] = "store"
    /\ LET i == wi[w]
           s == ShardIdx(curHashes[i + 1])
           idKey == curHashes[i + 1]
           exKey == SetExactFlag(curEntries[i + 1])
           m == PutExact(PutIdentity(ShardMap(s), idKey, i), exKey, i)
       IN /\ shards' = [x \in DOMAIN shards \cup {s} |->
                            IF x = s THEN m ELSE shards[x]]
          /\ locked' = locked \ {s}
          /\ IF i + 1 < High(w, newFiles, chunk2)
             THEN /\ wi' = [wi EXCEPT ![w] = i + 1]
                  /\ wpc' = [wpc EXCEPT ![w] = "lock"]
             ELSE /\ wi' = [wi EXCEPT ![w] = 0]
                  /\ wpc' = [wpc EXCEPT ![w] = "idle"]
    /\ UNCHANGED <<prev, arg, ret, old, cur, workers, seed, pc, oldHashes, oldEntries,
                   curHashes, curEntries, matches, tmOld, entries, status,
                   results, counts, additions, result>>

(***************************************************************************)
(* The join after Phase 2 and the start of Phase 3.                        *)
(***************************************************************************)
Join2 ==
    /\ pc = "populate"
    /\ AllIdle
    /\ IF workers < 0
       THEN \* make([][]Entry, workers): len out of range
            /\ pc' = "panic"
            /\ UNCHANGED <<matches, wpc, wi>>
       ELSE /\ pc' = "match"
            /\ matches' = [k \in 0..(((newFiles + 63) \div 64) - 1) |-> {}]
            /\ wpc' = Spawn(oldFiles, chunk3, "exact")
            /\ wi' = Lows(oldFiles, chunk3)
    /\ UNCHANGED <<prev, arg, ret, old, cur, workers, seed, oldHashes, oldEntries, curHashes,
                   curEntries, shards, locked, tmOld, entries, status,
                   results, counts, additions, result>>

(***************************************************************************)
(* Phase 3: a matching worker.                                             *)
(***************************************************************************)
\* m := shard.m for old index i.
OldMap(i) == ShardMap(ShardIdx(oldHashes[i + 1]))
ExactKey(i) == SetExactFlag(oldEntries[i + 1])
IdentityKey(i) == oldHashes[i + 1]

\* The exact-hash hit taken on trust, without the string compare.
AnyString(i, j) == TRUE

\* old[i] == cur[exMatch]
SameString(i, j) == old[i + 1] = cur[j + 1]

\* identity.Equal(old[i], cur[idMatch])
SameIdentity(i, j) == Equal(old[i + 1], cur[j + 1])

\* A match recorded as Updated whichever probe found it.
AlwaysUpdated(i, j, st) == [Old |-> i, New |-> j, Status |-> Updated]
MatchEntry(i, j, st) == [Old |-> i, New |-> j, Status |-> st]
\* A removal with its two indices exchanged.
RemovedEntrySwapped(i) == [Old |-> null, New |-> i, Status |-> Removed]
RemovedEntry(i) == [Old |-> i, New |-> null, Status |-> Removed]
AddedEntry(j) == [Old |-> null, New |-> j, Status |-> Added]

\* entries = append(entries, e); status[st]++; then the next iteration, or
\* results[worker] = entries; counts[worker] = status when the loop ends.
Record3(w, e) ==
    LET es == Append(entries[w], e)
        st == [status[w] EXCEPT ![e.Status] = @ + 1]
    IN /\ entries' = [entries EXCEPT ![w] = es]
       /\ status' = [status EXCEPT ![w] = st]
       /\ tmOld' = [tmOld EXCEPT ![w] = {}]
       /\ IF wi[w] + 1 < High(w, oldFiles, chunk3)
          THEN /\ wi' = [wi EXCEPT ![w] = @ + 1]
               /\ wpc' = [wpc EXCEPT ![w] = "exact"]
               /\ UNCHANGED <<results, counts>>
          ELSE /\ wi' = [wi EXCEPT ![w] = 0]
               /\ wpc' = [wpc EXCEPT ![w] = "idle"]
               /\ results' = [results EXCEPT ![w] = es]
               /\ counts' = [counts EXCEPT ![w] = st]

\* if exMatch, ok := m[oldEntries[i]|ExactFlag]; ok { if old[i] == cur[exMatch] && ...
P3Exact(w) ==
    /\ pc = "match"
    /\ wpc[w] = "exact"
    /\ LET i == wi[w]
           m == OldMap(i)
       IN IF ExactKey(i) \in DOMAIN m /\ SameString(i, m[ExactKey(i)])
          THEN wpc' = [wpc EXCEPT ![w] = "exLoad"]
          ELSE wpc' = [wpc EXCEPT ![w] = "ident"]
    /\ UNCHANGED <<prev, arg, ret, old, cur, workers, seed, pc, oldHashes, oldEntries,
                   curHashes, curEntries, shards, locked, matches, wi, tmOld,
                   entries, status, results, counts, additions, result>>

\* TryMark(matches, exMatch): old := v[idx].Load(); if old&bit != 0 { return false }
P3ExLoad(w) ==
    /\ pc = "match"
    /\ wpc[w] = "exLoad"
    /\ LET j == OldMap(wi[w])[ExactKey(wi[w])] IN
         IF IsMarked(matches, j)
         THEN /\ wpc' = [wpc EXCEPT ![w] = "ident"]
              /\ UNCHANGED tmOld
         ELSE /\ wpc' = [wpc EXCEPT ![w] = "exCAS"]
              /\ tmOld' = [tmOld EXCEPT ![w] = matches[WordIdx(j)]]
    /\ UNCHANGED <<prev, arg, ret, old, cur, workers, seed, pc, oldHashes, oldEntries,
                   curHashes, curEntries, shards, locked, matches, wi,
                   entries, status, results, counts, additions, result>>

\* TryMark(matches, exMatch): if v[idx].CompareAndSwap(old, old|bit) { return true }
P3ExCAS(w) ==
    /\ pc = "match"
    /\ wpc[w] = "exCAS"
    /\ LET i == wi[w]
           j == OldMap(i)[ExactKey(i)]
       IN IF CASSucceeds(matches[WordIdx(j)], tmOld[w])
          THEN /\ matches' = [matches EXCEPT ![WordIdx(j)] = tmOld[w] \cup {BitPos(j)}]
               /\ Record3(w, MatchEntry(i, j, Unchanged))
          ELSE /\ wpc' = [wpc EXCEPT ![w] = "exLoad"]
               /\ tmOld' = [tmOld EXCEPT ![w] = {}]
               /\ UNCHANGED <<matches, wi, entries, status, results, counts>>
    /\ UNCHANGED <<prev, arg, ret, old, cur, workers, seed, pc, oldHashes, oldEntries,
                   curHashes, curEntries, shards, locked, additions, result>>

\* if idMatch, ok := m[oldHashes[i]]; ok { if !IsMarked(...) && Equal(...) && ...
\* and, when the condition fails before TryMark, the fall back to removal.
P3Ident(w) ==
    /\ pc = "match"
    /\ wpc[w] = "ident"
    /\ LET i == wi[w]
           m == OldMap(i)
       IN IF /\ IdentityKey(i) \in DOMAIN m
             /\ ~IsMarked(matches, m[IdentityKey(i)])
             /\ SameIdentity(i, m[IdentityKey(i)])
          THEN /\ wpc' = [wpc EXCEPT ![w] = "idLoad"]
               /\ UNCHANGED <<wi, tmOld, entries, status, results, counts>>
          ELSE Record3(w, RemovedEntry(i))
    /\ UNCHANGED <<prev, arg, ret, old, cur, workers, seed, pc, oldHashes, oldEntries,
                   curHashes, curEntries, shards, locked, matches, additions,
                   result>>

\* TryMark(matches, idMatch): the load.
P3IdLoad(w) ==
    /\ pc = "match"
    /\ wpc[w] = "idLoad"
    /\ LET i == wi[w]
           j == OldMap(i)[IdentityKey(i)]
       IN IF IsMarked(matches, j)
          THEN Record3(w, RemovedEntry(i))
          ELSE /\ wpc' = [wpc EXCEPT ![w] = "idCAS"]
               /\ tmOld' = [tmOld EXCEPT ![w] = matches[WordIdx(j)]]
               /\ UNCHANGED <<wi, entries, status, results, counts>>
    /\ UNCHANGED <<prev, arg, ret, old, cur, workers, seed, pc, oldHashes, oldEntries,
                   curHashes, curEntries, shards, locked, matches, additions,
                   result>>

\* TryMark(matches, idMatch): the compare-and-swap.
P3IdCAS(w) ==
    /\ pc = "match"
    /\ wpc[w] = "idCAS"
    /\ LET i == wi[w]
           j == OldMap(i)[IdentityKey(i)]
       IN IF CASSucceeds(matches[WordIdx(j)], tmOld[w])
          THEN /\ matches' = [matches EXCEPT ![WordIdx(j)] = tmOld[w] \cup {BitPos(j)}]
               /\ Record3(w, MatchEntry(i, j, Updated))
          ELSE /\ wpc' = [wpc EXCEPT ![w] = "idLoad"]
               /\ tmOld' = [tmOld EXCEPT ![w] = {}]
               /\ UNCHANGED <<matches, wi, entries, status, results, counts>>
    /\ UNCHANGED <<prev, arg, ret, old, cur, workers, seed, pc, oldHashes, oldEntries,
                   curHashes, curEntries, shards, locked, additions, result>>

(***************************************************************************)
(* The join after Phase 3, Phase 4 (additions), and the merge.             *)
(***************************************************************************)
Join3 ==
    /\ pc = "match"
    /\ AllIdle
    /\ pc' = "additions"
    /\ entries' = [w \in Workers |-> <<>>]
    /\ status' = [w \in Workers |-> NoCounts]
    /\ wpc' = Spawn(newFiles, chunk4, "scan")
    /\ wi' = Lows(newFiles, chunk4)
    /\ UNCHANGED <<prev, arg, ret, old, cur, workers, seed, oldHashes, oldEntries, curHashes,
                   curEntries, shards, locked, matches, tmOld, results,
                   counts, additions, result>>

\* if !identity.IsMarked(matches, fileIdx) { entries = append(...) }
P4Scan(w) ==
    /\ pc = "additions"
    /\ wpc[w] = "scan"
    /\ LET i == wi[w]
           es == IF IsMarked(matches, i) THEN entries[w]
                 ELSE Append(entries[w], AddedEntry(i))
       IN /\ entries' = [entries EXCEPT ![w] = es]
          /\ IF i + 1 < High(w, newFiles, chunk4)
             THEN /\ wi' = [wi EXCEPT ![w] = i + 1]
                  /\ UNCHANGED <<wpc, additions>>
             ELSE /\ wi' = [wi EXCEPT ![w] = 0]
                  /\ wpc' = [wpc EXCEPT ![w] = "idle"]
                  /\ additions' = [additions EXCEPT ![w] = es]
    /\ UNCHANGED <<prev, arg, ret, old, cur, workers, seed, pc, oldHashes, oldEntries,
                   curHashes, curEntries, shards, locked, matches, tmOld,
                   status, results, counts, result>>

\* The slots f[0], ..., f[n-1] appended in worker order.
RECURSIVE Concat(_, _)
Concat(f, n) == IF n = 0 THEN <<>> ELSE Concat(f, n - 1) \o f[n - 1]

\* The sum of counts[worker][st] over the workers 0..n-1.
RECURSIVE SumCounts(_, _)
SumCounts(st, n) == IF n = 0 THEN 0 ELSE SumCounts(st, n - 1) + counts[n - 1][st]

\* The sum of len(additions[worker]) over the workers 0..n-1.
RECURSIVE SumAdded(_)
SumAdded(n) == IF n = 0 THEN 0 ELSE SumAdded(n - 1) + Len(additions[n - 1])

\* The two groups merged in the other order.
MergeEAddedFirst == Concat(additions, workers) \o Concat(results, workers)
MergeE == Concat(results, workers) \o Concat(additions, workers)

\* The Added count left out of the merge.
MergeCNoAdded == [s \in 0..3 |-> IF s = Added THEN 0 ELSE SumCounts(s, workers)]

MergeC ==
    [s \in 0..3 |-> IF s = Added THEN SumAdded(workers) ELSE SumCounts(s, workers)]

Merge ==
    /\ pc = "additions"
    /\ AllIdle
    /\ pc' = "done"
    /\ result' = [E |-> MergeE, C |-> MergeC]
    /\ UNCHANGED <<prev, arg, ret, old, cur, workers, seed, oldHashes, oldEntries, curHashes,
                   curEntries, shards, locked, matches, wpc, wi, tmOld,
                   entries, status, results, counts, additions>>

Next ==
    \/ Start
    \/ \E w \in Workers : P2Lock(w)
    \/ \E w \in Workers : P2Store(w)
    \/ Join2
    \/ \E w \in Workers : P3Exact(w)
    \/ \E w \in Workers : P3ExLoad(w)
    \/ \E w \in Workers : P3ExCAS(w)
    \/ \E w \in Workers : P3Ident(w)
    \/ \E w \in Workers : P3IdLoad(w)
    \/ \E w \in Workers : P3IdCAS(w)
    \/ Join3
    \/ \E w \in Workers : P4Scan(w)
    \/ Merge

Spec == Init /\ [][Next]_vars

\* Lists of the two names of one identity: their entries go to one shard,
\* ask for the same lock and the same identity key, and for bits of one word.
Contended ==
    UNION {[1..n -> {<<97, 46, 115, 111, 46, 49>>, <<97, 46, 115, 111, 46, 50>>}] :
              n \in 0..MaxLen}

InitFair == Init /\ old \in Contended /\ cur \in Contended

\* A call under a fair scheduler: as long as the caller or one of its
\* workers can take a step, a step is taken.
SpecFair == InitFair /\ [][Next]_vars /\ WF_vars(Next)

\* diffP takes its worker count as it is given: zero and negative counts
\* are among the calls.
InitAnyWorkers == InitWith((0 - MaxWorkers)..MaxWorkers)

SpecAnyWorkers == InitAnyWorkers /\ [][Next]_vars

(***************************************************************************)
(* Phase 3 without the IsMarked test of the identity path:                 *)
(*     if identity.Equal(old[i], cur[idMatch]) && identity.TryMark(...)    *)
(* Every other step is the one of diffP.  The label a worker enters        *)
(* TryMark with remembers what the test would have found: "idSkip" when    *)
(* the bit was set at that moment, "idLoad" when it was clear; the code    *)
(* that runs from the two labels is the same load of TryMark.              *)
(***************************************************************************)
\* A load that never finds the bit set.
BitNeverSet(word, j) == FALSE

\* old&bit != 0, on the word that TryMark has loaded
BitSet(word, j) == BitPos(j) \in word

\* if idMatch, ok := m[oldHashes[i]]; ok { if identity.Equal(...) && ...
P3IdentNoTest(w) ==
    /\ pc = "match"
    /\ wpc[w] = "ident"
    /\ LET i == wi[w]
           m == OldMap(i)
       IN IF /\ IdentityKey(i) \in DOMAIN m
             /\ SameIdentity(i, m[IdentityKey(i)])
          THEN /\ wpc' = [wpc EXCEPT ![w] =
                            IF BitPos(m[IdentityKey(i)]) \in matches[WordIdx(m[IdentityKey(i)])]
                            THEN "idSkip" ELSE "idLoad"]
               /\ UNCHANGED <<wi, tmOld, entries, status, results, counts>>
          ELSE Record3(w, RemovedEntry(i))
    /\ UNCHANGED <<prev, arg, ret, old, cur, workers, seed, pc, oldHashes, oldEntries,
                   curHashes, curEntries, shards, locked, matches, additions,
                   result>>

\* TryMark(matches, idMatch), entered where the test would have kept the
\* worker out: old := v[idx].Load(); if old&bit != 0 { return false }
P3IdSkip(w) ==
    /\ pc = "match"
    /\ wpc[w] = "idSkip"
    /\ LET i == wi[w]
           j == OldMap(i)[IdentityKey(i)]
       IN IF BitSet(matches[WordIdx(j)], j)
          THEN Record3(w, RemovedEntry(i))
          ELSE /\ wpc' = [wpc EXCEPT ![w] = "idCAS"]
               /\ tmOld' = [tmOld EXCEPT ![w] = matches[WordIdx(j)]]
               /\ UNCHANGED <<wi, entries, status, results, counts>>
    /\ UNCHANGED <<prev, arg, ret, old, cur, workers, seed, pc, oldHashes, oldEntries,
                   curHashes, curEntries, shards, locked, matches, additions,
                   result>>

NextNoTest ==
    \/ Start
    \/ \E w \in Workers : P2Lock(w)
    \/ \E w \in Workers : P2Store(w)
    \/ Join2
    \/ \E w \in Workers : P3Exact(w)
    \/ \E w \in Workers : P3ExLoad(w)
    \/ \E w \in Workers : P3ExCAS(w)
    \/ \E w \in Workers : P3IdentNoTest(w)
    \/ \E w \in Workers : P3IdSkip(w)
    \/ \E w \in Workers : P3IdLoad(w)
    \/ \E w \in Workers : P3IdCAS(w)
    \/ Join3
    \/ \E w \in Workers : P4Scan(w)
    \/ Merge

SpecNoTest == Init /\ [][NextNoTest]_vars

(***************************************************************************)
(* Repeated calls on the same inputs (TestDiff_Determinism): the first     *)
(* Result is kept and the call is made again, with fresh locals and the    *)
(* same package seed.  The first call is the reference the later ones are  *)
(* compared with: its workers run one after the other, lowest first, which *)
(* is one of the schedules the runtime may choose; the calls after it take *)
(* every interleaving.  All calls agree with each other exactly when each  *)
(* of them agrees with the reference.                                      *)
(***************************************************************************)
Restart ==
    /\ pc = "done"
    /\ prev' = IF prev = <<>> THEN <<result>> ELSE prev
    /\ pc' = "start"
    /\ oldHashes' = <<>> /\ oldEntries' = <<>>
    /\ curHashes' = <<>> /\ curEntries' = <<>>
    /\ shards' = <<>>
    /\ locked' = {}
    /\ matches' = <<>>
    /\ wpc' = [w \in Workers |-> "idle"]
    /\ wi' = [w \in Workers |-> 0]
    /\ tmOld' = [w \in Workers |-> {}]
    /\ entries' = [w \in Workers |-> <<>>]
    /\ status' = [w \in Workers |-> NoCounts]
    /\ results' = [w \in Workers |-> <<>>]
    /\ counts' = [w \in Workers |-> NoCounts]
    /\ additions' = [w \in Workers |-> <<>>]
    /\ result' = EmptyResult
    /\ UNCHANGED <<arg, ret, old, cur, workers, seed>>

\* The worker that takes the step is the lowest one still running.
Serial ==
    \A w \in Workers :
        (wpc'[w] # wpc[w] \/ wi'[w] # wi[w]) =>
            \A v \in 0..(w - 1) : wpc[v] = "idle"

NextRerun ==
    \/ prev = <<>> /\ Next /\ Serial
    \/ prev # <<>> /\ Next
    \/ Restart

SpecRerun == Init /\ [][NextRerun]_vars

(***************************************************************************)
(* A call diffP(old, cur, W) followed by the call diffP(old, cur, 1) on    *)
(* the same lists: prev keeps the Result of the first call and arg its     *)
(* worker count.                                                           *)
(***************************************************************************)
RestartOne ==
    /\ pc = "done"
    /\ prev = <<>>
    /\ prev' = <<result>>
    /\ arg' = [workers |-> workers]
    /\ workers' = 1
    /\ pc' = "start"
    /\ oldHashes' = <<>> /\ oldEntries' = <<>>
    /\ curHashes' = <<>> /\ curEntries' = <<>>
    /\ shards' = <<>>
    /\ locked' = {}
    /\ matches' = <<>>
    /\ wpc' = [w \in {0} |-> "idle"]
    /\ wi' = [w \in {0} |-> 0]
    /\ tmOld' = [w \in {0} |-> {}]
    /\ entries' = [w \in {0} |-> <<>>]
    /\ status' = [w \in {0} |-> NoCounts]
    /\ results' = [w \in {0} |-> <<>>]
    /\ counts' = [w \in {0} |-> NoCounts]
    /\ additions' = [w \in {0} |-> <<>>]
    /\ result' = EmptyResult
    /\ UNCHANGED <<ret, old, cur, seed>>

NextOneWorker == Next \/ RestartOne

SpecOneWorker == Init /\ [][NextOneWorker]_vars

(***************************************************************************)
(* TryMark on its own (FuzzTryMarkConcurrent): the callers are started     *)
(* together on one fresh bitset, each calls TryMark on every bit of the    *)
(* list in turn, and the returns are counted per bit.                      *)
(***************************************************************************)
\* The bits the callers go through: one bit, two bits of one word, the last
\* bit of a word and the first of the next.
TryMarkBits == {<<0>>, <<0, 1>>, <<63, 64>>}

InitTryMark ==
    /\ arg \in {[bits |-> b] : b \in TryMarkBits}
    /\ workers \in 1..MaxCallers
    /\ pc = "trymark"
    /\ matches = [k \in 0..WordIdx(arg.bits[Len(arg.bits)]) |-> {}]
    /\ wpc = [w \in Workers |-> "tmLoad"]
    /\ wi = [w \in Workers |-> 0]
    /\ tmOld = [w \in Workers |-> {}]
    /\ ret = [k \in DOMAIN arg.bits |-> [true |-> 0, false |-> 0]]
    /\ old = <<>> /\ cur = <<>> /\ seed = 0
    /\ oldHashes = <<>> /\ oldEntries = <<>>
    /\ curHashes = <<>> /\ curEntries = <<>>
    /\ shards = <<>>
    /\ locked = {}
    /\ entries = [w \in Workers |-> <<>>]
    /\ status = [w \in Workers |-> NoCounts]
    /\ results = [w \in Workers |-> <<>>]
    /\ counts = [w \in Workers |-> NoCounts]
    /\ additions = [w \in Workers |-> <<>>]
    /\ result = EmptyResult
    /\ prev = <<>>

\* The bit caller w is calling TryMark for.
TryMarkBit(w) == arg.bits[wi[w] + 1]

\* TryMark returned b to caller w: the return is counted and the caller goes
\* on to its next bit, or is done.
TryMarkReturn(w, b) ==
    /\ ret' = [ret EXCEPT ![wi[w] + 1] =
                  IF b THEN [@ EXCEPT !.true = @ + 1] ELSE [@ EXCEPT !.false = @ + 1]]
    /\ tmOld' = [tmOld EXCEPT ![w] = {}]
    /\ IF wi[w] + 1 < Len(arg.bits)
       THEN /\ wi' = [wi EXCEPT ![w] = @ + 1]
            /\ wpc' = [wpc EXCEPT ![w] = "tmLoad"]
       ELSE /\ wi' = [wi EXCEPT ![w] = 0]
            /\ wpc' = [wpc EXCEPT ![w] = "idle"]

\* old := v[idx].Load(); if old&bit != 0 { return false }
TryMarkLoad(w) ==
    /\ pc = "trymark"
    /\ wpc[w] = "tmLoad"
    /\ IF IsMarked(matches, TryMarkBit(w))
       THEN TryMarkReturn(w, FALSE)
       ELSE /\ wpc' = [wpc EXCEPT ![w] = "tmCAS"]
            /\ tmOld' = [tmOld EXCEPT ![w] = matches[WordIdx(TryMarkBit(w))]]
            /\ UNCHANGED <<wi, ret>>
    /\ UNCHANGED <<prev, arg, old, cur, workers, seed, pc, oldHashes,
                   oldEntries, curHashes, curEntries, shards, locked, matches,
                   entries, status, results, counts, additions, result>>

\* if v[idx].CompareAndSwap(old, old|bit) { return true }, else once more
TryMarkCAS(w) ==
    /\ pc = "trymark"
    /\ wpc[w] = "tmCAS"
    /\ LET j == TryMarkBit(w) IN
         IF CASSucceeds(matches[WordIdx(j)], tmOld[w])
         THEN /\ matches' = [matches EXCEPT ![WordIdx(j)] = tmOld[w] \cup {BitPos(j)}]
              /\ TryMarkReturn(w, TRUE)
         ELSE /\ wpc' = [wpc EXCEPT ![w] = "tmLoad"]
              /\ tmOld' = [tmOld EXCEPT ![w] = {}]
              /\ UNCHANGED <<matches, wi, ret>>
    /\ UNCHANGED <<prev, arg, old, cur, workers, seed, pc, oldHashes,
                   oldEntries, curHashes, curEntries, shards, locked, entries,
                   status, results, counts, additions, result>>

NextTryMark ==
    \/ \E w \in Workers : TryMarkLoad(w)
    \/ \E w \in Workers : TryMarkCAS(w)

SpecTryMark == InitTryMark /\ [][NextTryMark]_vars

(***************************************************************************)
(* The functions of internal/identity on their own, as the fuzz and table  *)
(* tests call them: two input strings are drawn, a test applies the        *)
(* function and keeps what it returned.                                    *)
(***************************************************************************)
\* "", "a", "a.so", "pkg", "lib"
Stems ==
    {<<>>, <<97>>, <<97, 46, 115, 111>>, <<112, 107, 103>>, <<108, 105, 98>>}

\* "", and for each version k: ".so.k", "-k", ".k.0", "-k.0.Q1abc"
Versions ==
    {<<>>} \cup
    UNION {{ <<46, 115, 111, 46, 48 + k>>,
             <<45, 48 + k>>,
             <<46, 48 + k, 46, 48>>,
             <<45, 48 + k, 46, 48, 46, 81, 49, 97, 98, 99>> } : k \in 1..MaxVer}

\* "", ".so", ".trigger", ".post-install"
Tails ==
    {<<>>, <<46, 115, 111>>, <<46, 116, 114, 105, 103, 103, 101, 114>>,
     <<46, 112, 111, 115, 116, 45, 105, 110, 115, 116, 97, 108, 108>>}

\* The input strings: every stem, with every version, with every tail.
Inputs == {st \o v \o t : st \in Stems, v \in Versions, t \in Tails}

InitFuzz ==
    /\ arg \in [a : Inputs, b : Inputs]
    /\ seed \in Seeds
    /\ pc = "fuzz"
    /\ ret = <<>>
    /\ old = <<>> /\ cur = <<>> /\ workers = 1
    /\ NoCall
    /\ prev = <<>>

\* FuzzEqual: eq := Equal(a, b), and the calls Equal(a, a) and Equal(b, a).
FuzzEqual ==
    /\ pc = "fuzz"
    /\ pc' = "equal"
    /\ ret' = [eq |-> Equal(arg.a, arg.b),
               refl |-> Equal(arg.a, arg.a),
               rev |-> Equal(arg.b, arg.a)]
    /\ UNCHANGED <<prev, arg, old, cur, workers, seed, oldHashes, oldEntries,
                   curHashes, curEntries, shards, locked, matches, wpc, wi,
                   tmOld, entries, status, results, counts, additions, result>>

\* TestHash_SameIdentity, FuzzHashSerial: Hash of each string under the seed.
TestHash ==
    /\ pc = "fuzz"
    /\ pc' = "hash"
    /\ ret' = [a |-> Hash(arg.a, seed), b |-> Hash(arg.b, seed)]
    /\ UNCHANGED <<prev, arg, old, cur, workers, seed, oldHashes, oldEntries,
                   curHashes, curEntries, shards, locked, matches, wpc, wi,
                   tmOld, entries, status, results, counts, additions, result>>

NextFuzz == FuzzEqual \/ TestHash

SpecFuzz == InitFuzz /\ [][NextFuzz]_vars

(***************************************************************************)
(* The matchers, Spans and Hash on one input string, as FuzzSoname,        *)
(* FuzzSuffix, FuzzScript, FuzzEmbedded, FuzzSpans and FuzzHashSerial call *)
(* them.  The inputs are the built names above and every short string over *)
(* the bytes the matchers look for.                                        *)
(***************************************************************************)
\* '.', '-', '1', 's', 'o', 'r', and '/', a byte of no class
Alphabet == {46, 45, 49, 115, 111, 114, 47}

Short == UNION {[1..n -> Alphabet] : n \in 0..MaxShort}

\* The inputs of TestSoname and TestSuffix, and a name with two ".so.N".
Table ==
  { <<108, 105, 98, 102, 111, 111, 46, 115, 111, 46, 49>>,                  \* libfoo.so.1
    <<108, 105, 98, 102, 111, 111, 46, 115, 111, 46, 49, 46, 50, 46, 51>>,  \* libfoo.so.1.2.3
    <<108, 105, 98, 122, 46, 115, 111, 46, 49>>,                            \* libz.so.1
    <<108, 105, 98, 115, 115, 108, 46, 115, 111, 46, 51>>,                  \* libssl.so.3
    <<117, 115, 114, 47, 108, 105, 98, 47, 108, 105, 98, 99, 114, 121, 112,
      116, 111, 46, 115, 111, 46, 49, 46, 49, 46, 48>>,                     \* usr/lib/libcrypto.so.1.1.0
    <<108, 105, 98, 102, 111, 111, 46, 115, 111>>,                          \* libfoo.so
    <<102, 111, 111, 46, 116, 120, 116>>,                                   \* foo.txt
    <<46, 115, 111, 46, 49>>,                                               \* .so.1
    <<97, 112, 112, 45, 49, 46, 48, 46, 48>>,                               \* app-1.0.0
    <<97, 112, 112, 45, 49, 46, 48, 46, 48, 45, 114, 53>>,                  \* app-1.0.0-r5
    <<116, 111, 111, 108, 45, 50, 46, 51, 46, 52, 45, 98, 101, 116, 97, 49>>, \* tool-2.3.4-beta1
    <<112, 121, 116, 104, 111, 110, 45, 51, 46, 49, 49>>,                   \* python-3.11
    <<117, 115, 114, 47, 98, 105, 110, 47, 108, 115>>,                      \* usr/bin/ls
    <<102, 111, 111>>,                                                      \* foo
    <<102, 111, 111, 45, 98, 97, 114>>,                                     \* foo-bar
    <<46, 115, 111, 46, 49, 46, 115, 111, 46, 50>> }                        \* .so.1.so.2

InitMatch ==
    /\ arg \in [a : Inputs \cup Short \cup Table]
    /\ seed \in Seeds
    /\ pc = "match1"
    /\ ret = <<>>
    /\ old = <<>> /\ cur = <<>> /\ workers = 1
    /\ NoCall
    /\ prev = <<>>

\* A test calls f on the input and keeps what it returned.
Returned(label, value) ==
    /\ pc = "match1"
    /\ pc' = label
    /\ ret' = value
    /\ UNCHANGED <<prev, arg, old, cur, workers, seed, oldHashes, oldEntries,
                   curHashes, curEntries, shards, locked, matches, wpc, wi,
                   tmOld, entries, status, results, counts, additions, result>>

FuzzSoname == Returned("soname", Soname(arg.a))
FuzzSuffix == Returned("suffix", Suffix(arg.a))
FuzzScript == Returned("script", Script(arg.a))
FuzzEmbedded == Returned("embedded", Embedded(arg.a))
FuzzSpans == Returned("spans", Spans(arg.a))
FuzzHashSerial == Returned("hashserial", Hash(arg.a, seed))

NextMatch ==
    \/ FuzzSoname
    \/ FuzzSuffix
    \/ FuzzScript
    \/ FuzzEmbedded
    \/ FuzzSpans
    \/ FuzzHashSerial

SpecMatch == InitMatch /\ [][NextMatch]_vars

(***************************************************************************)
(* HashAll on its own (FuzzHashAll): the file list is old, the two result  *)
(* arrays are oldHashes (idMatch) and oldEntries (exMatch), and ret is     *)
(* what the call returned.                                                 *)
(***************************************************************************)
InitHashAll ==
    /\ old \in Lists
    /\ workers \in 1..(2 * MaxWorkers)
    /\ seed \in Seeds
    /\ pc = "hashall"
    /\ cur = <<>>
    /\ NoCall
    /\ prev = <<>> /\ arg = <<>> /\ ret = <<>>

\* chunk := max(1, (length+workers-1)/workers) inside HashAll
chunkH == ChunkOf(oldFiles, workers)

\* HashAll up to wg.Wait(): the empty case, the two zeroed arrays, and the
\* workers the loop starts.
HashAllStart ==
    /\ pc = "hashall"
    /\ IF oldFiles = 0
       THEN /\ pc' = "hashed"
            /\ ret' = <<<<>>, <<>>>>
            /\ UNCHANGED <<oldHashes, oldEntries, wpc, wi>>
       ELSE /\ pc' = "hashing"
            /\ oldHashes' = [n \in 1..oldFiles |-> Zero64]
            /\ oldEntries' = [n \in 1..oldFiles |-> Zero64]
            /\ wpc' = Spawn(oldFiles, chunkH, "hash")
            /\ wi' = Lows(oldFiles, chunkH)
            /\ UNCHANGED ret
    /\ UNCHANGED <<prev, arg, old, cur, workers, seed, curHashes, curEntries,
                   shards, locked, matches, tmOld, entries, status, results,
                   counts, additions, result>>

\* idMatch[i], exMatch[i] = Hash(files[i], seed)
HashAllWorker(w) ==
    /\ pc = "hashing"
    /\ wpc[w] = "hash"
    /\ LET i == wi[w] IN
        /\ oldHashes' = [oldHashes EXCEPT ![i + 1] = Hash(old[i + 1], seed)[1]]
        /\ oldEntries' = [oldEntries EXCEPT ![i + 1] = Hash(old[i + 1], seed)[2]]
        /\ IF i + 1 < High(w, oldFiles, chunkH)
           THEN /\ wi' = [wi EXCEPT ![w] = i + 1]
                /\ UNCHANGED wpc
           ELSE /\ wi' = [wi EXCEPT ![w] = 0]
                /\ wpc' = [wpc EXCEPT ![w] = "idle"]
    /\ UNCHANGED <<prev, arg, ret, old, cur, workers, seed, pc, curHashes,
                   curEntries, shards, locked, matches, tmOld, entries,
                   status, results, counts, additions, result>>

\* wg.Wait(); return idMatch, exMatch
HashAllReturn ==
    /\ pc = "hashing"
    /\ AllIdle
    /\ pc' = "hashed"
    /\ ret' = <<oldHashes, oldEntries>>
    /\ UNCHANGED <<prev, arg, old, cur, workers, seed, oldHashes, oldEntries,
                   curHashes, curEntries, shards, locked, matches, wpc, wi,
                   tmOld, entries, status, results, counts, additions, result>>

NextHashAll ==
    \/ HashAllStart
    \/ \E w \in Workers : HashAllWorker(w)
    \/ HashAllReturn

SpecHashAll == InitHashAll /\ [][NextHashAll]_vars

(***************************************************************************)
(* Two goroutines call Diff(old, cur) at the same time                     *)
(* (FuzzDiffConcurrent).  Everything diffP works on is allocated inside    *)
(* the call; the package variable seed is all the calls have in common.    *)
(* The variables hold the locals of the invocation that takes the next     *)
(* step and arg holds those of the other one; Switch hands the processor   *)
(* over, at any point of either call.                                      *)
(***************************************************************************)
\* The locals of the invocation that is running.
Locals ==
    [pc |-> pc, oldHashes |-> oldHashes, oldEntries |-> oldEntries,
     curHashes |-> curHashes, curEntries |-> curEntries, shards |-> shards,
     locked |-> locked, matches |-> matches, wpc |-> wpc, wi |-> wi,
     tmOld |-> tmOld, entries |-> entries, status |-> status,
     results |-> results, counts |-> counts, additions |-> additions,
     result |-> result]

InitConcurrent ==
    /\ old \in Lists
    /\ cur \in Lists
    /\ workers \in 1..MaxWorkers
    /\ seed \in Seeds
    /\ Fresh
    /\ arg = Locals
    /\ prev = <<>>
    /\ ret = <<>>

\* The other invocation goes on.
Switch ==
    /\ arg' = Locals
    /\ pc' = arg.pc
    /\ oldHashes' = arg.oldHashes /\ oldEntries' = arg.oldEntries
    /\ curHashes' = arg.curHashes /\ curEntries' = arg.curEntries
    /\ shards' = arg.shards
    /\ locked' = arg.locked
    /\ matches' = arg.matches
    /\ wpc' = arg.wpc /\ wi' = arg.wi /\ tmOld' = arg.tmOld
    /\ entries' = arg.entries /\ status' = arg.status
    /\ results' = arg.results /\ counts' = arg.counts
    /\ additions' = arg.additions
    /\ result' = arg.result
    /\ UNCHANGED <<old, cur, workers, seed, prev, ret>>

NextConcurrent == Next \/ Switch

SpecConcurrent == InitConcurrent /\ [][NextConcurrent]_vars

(***************************************************************************)
(* Result.All and Result.Filter (TestResult_Iterators,                     *)
(* FuzzResultIterator): a consumer ranges over the iterator, answers each  *)
(* yield with true (go on) or false (stop), and may range again.  ret      *)
(* holds the loop position, what was yielded so far and whether the        *)
(* consumer has answered false; prev keeps the first complete iteration.   *)
(***************************************************************************)
\* The entries diffP writes, and a Removed entry with a bit above the low
\* byte of its Status set.
EntrySet ==
    {MatchEntry(0, 0, Unchanged), MatchEntry(1, 1, Updated), RemovedEntry(0),
     AddedEntry(0), [Old |-> 0, New |-> null, Status |-> 256 + Removed]}

\* A Result over the entry list es, with the counts of its statuses.
ResultOf(es) ==
    [E |-> es,
     C |-> [st \in 0..3 |-> Cardinality({k \in DOMAIN es : es[k].Status = st})]]

InitIter ==
    /\ result \in {ResultOf(es) : es \in UNION {[1..n -> EntrySet] : n \in 0..MaxEntries}}
    /\ arg \in {[fn |-> "All", s |-> Unchanged]} \cup {[fn |-> "Filter", s |-> st] : st \in 0..3}
    /\ pc = "iter"
    /\ ret = <<>>
    /\ prev = <<>>
    /\ old = <<>> /\ cur = <<>> /\ workers = 1 /\ seed = 0
    /\ oldHashes = <<>> /\ oldEntries = <<>>
    /\ curHashes = <<>> /\ curEntries = <<>>
    /\ shards = <<>>
    /\ locked = {}
    /\ matches = <<>>
    /\ wpc = [w \in Workers |-> "idle"]
    /\ wi = [w \in Workers |-> 0]
    /\ tmOld = [w \in Workers |-> {}]
    /\ entries = [w \in Workers |-> <<>>]
    /\ status = [w \in Workers |-> NoCounts]
    /\ results = [w \in Workers |-> <<>>]
    /\ counts = [w \in Workers |-> NoCounts]
    /\ additions = [w \in Workers |-> <<>>]

\* The status taken as it is stored.
DecodeRaw(st) == st

\* Status(e.Status & 0xFF)
Decode(st) == st % 256

\* An iterator that goes on whatever yield returned.
NeverReturn(yielded) == FALSE

\* if !yield(...) { return }
Return(yielded) == ~yielded

\* for ... := range r.All() / r.Filter(s): the loop begins, for the first
\* time or once more.
Range ==
    /\ pc \in {"iter", "finished", "stopped"}
    /\ prev' = IF pc = "finished" /\ prev = <<>> THEN <<ret.out>> ELSE prev
    /\ ret' = [pos |-> 0, out |-> <<>>, stopped |-> FALSE]
    /\ pc' = IF Len(result.E) = 0 THEN "finished"
             ELSE IF arg.fn = "All" THEN "all" ELSE "filter"
    /\ UNCHANGED <<arg, old, cur, workers, seed, oldHashes, oldEntries,
                   curHashes, curEntries, shards, locked, matches, wpc, wi,
                   tmOld, entries, status, results, counts, additions, result>>

\* The loop goes to its next entry, or ends after the last one.
Advance(out, answer) ==
    /\ ret' = [pos |-> IF ret.pos + 1 < Len(result.E) THEN ret.pos + 1 ELSE ret.pos,
               out |-> out, stopped |-> answer]
    /\ pc' = IF ret.pos + 1 < Len(result.E) THEN pc ELSE "finished"

\* The consumer's answer was false and the iterator returns.
Stop(out) ==
    /\ ret' = [ret EXCEPT !.out = out, !.stopped = TRUE]
    /\ pc' = "stopped"

\* One pass of the loop of All: if !yield(Status(e.Status&0xFF), e) { return }
AllNext ==
    /\ pc = "all"
    /\ LET e == result.E[ret.pos + 1]
           out == Append(ret.out, <<Decode(e.Status), e>>)
       IN \E yielded \in BOOLEAN :
            IF Return(yielded) THEN Stop(out) ELSE Advance(out, ~yielded)
    /\ UNCHANGED <<prev, arg, old, cur, workers, seed, oldHashes, oldEntries,
                   curHashes, curEntries, shards, locked, matches, wpc, wi,
                   tmOld, entries, status, results, counts, additions, result>>

\* One pass of the loop of Filter:
\* if Status(e.Status&0xFF) == s { if !yield(e) { return } }
FilterNext ==
    /\ pc = "filter"
    /\ LET e == result.E[ret.pos + 1] IN
         IF Decode(e.Status) = arg.s
         THEN \E yielded \in BOOLEAN :
                IF Return(yielded) THEN Stop(Append(ret.out, e))
                ELSE Advance(Append(ret.out, e), ~yielded)
         ELSE Advance(ret.out, FALSE)
    /\ UNCHANGED <<prev, arg, old, cur, workers, seed, oldHashes, oldEntries,
                   curHashes, curEntries, shards, locked, matches, wpc, wi,
                   tmOld, entries, status, results, counts, additions, result>>

NextIter == Range \/ AllNext \/ FilterNext

SpecIter == InitIter /\ [][NextIter]_vars

(***************************************************************************)
(* Vocabulary of the properties.                                           *)
(***************************************************************************)
Done == pc = "done"

\* Result.Count(s)
Count(s) == result.C[s]

OldIdx == 0..(oldFiles - 1)
CurIdx == 0..(newFiles - 1)
Matched == {Unchanged, Updated}

\* The positions of Result.E that hold the entry <<i, j, st>>.
Reports(i, j, st) ==
    \E k \in DOMAIN result.E : result.E[k] = MatchEntry(i, j, st)

\* The Phase-3 buffer of worker w: its local entries while Phase 3 runs,
\* its slot of results afterwards.
Buf3(w) == IF pc = "match" THEN entries[w] ELSE results[w]

\* The places of the Phase-3 buffers that hold a match with New = m.
ClaimsOf(m) ==
    UNION {{<<w, k>> : k \in {n \in DOMAIN Buf3(w) :
                                 /\ Buf3(w)[n].New = m
                                 /\ Buf3(w)[n].Status \in Matched}} :
           w \in Workers}

\* The cur index worker w is inside TryMark for.
Target(w) ==
    IF wpc[w] \in {"exLoad", "exCAS"}
    THEN OldMap(wi[w])[ExactKey(wi[w])]
    ELSE OldMap(wi[w])[IdentityKey(wi[w])]

InTryMark(w) == pc = "match" /\ wpc[w] \in {"exLoad", "exCAS", "idLoad", "idCAS"}

NoDup(list) == \A a, b \in DOMAIN list : list[a] = list[b] => a = b

\* cur[m] is byte-equal or identity-Equal to old[i].
Compatible(i, m) == SameString(i, m) \/ SameIdentity(i, m)

\* No cur entry is compatible with more than one old entry.
NoAmbiguity ==
    \A m \in CurIdx : Cardinality({i \in OldIdx : Compatible(i, m)}) <= 1

\* The status a Result assigns to each old index.
OldStatus(r) ==
    {<<r.E[k].Old, r.E[k].Status>> : k \in {n \in DOMAIN r.E : r.E[n].Status # Added}}

\* The identities of a list are pairwise distinct.
DistinctIdentities(list) ==
    \A a, b \in DOMAIN list : a # b => ~Equal(list[a], list[b])

\* The hashes of this call collide on no two cur entries: equal exact hashes
\* belong to equal strings and equal identity hashes to Equal strings.
CollisionFree ==
    \A m, n \in CurIdx :
        /\ curEntries[m + 1] = curEntries[n + 1] => cur[m + 1] = cur[n + 1]
        /\ curHashes[m + 1] = curHashes[n + 1] => Equal(cur[m + 1], cur[n + 1])

(***************************************************************************)
(* C1: after diffP returns, every old index 0..|old|-1 is the Old of       *)
(* exactly one entry, that entry is Unchanged, Updated or Removed, and     *)
(* Count(Unchanged)+Count(Updated)+Count(Removed) = |old|.                 *)
(***************************************************************************)
C1_EveryOldIndexOnce ==
    Done =>
        /\ \A i \in OldIdx :
            /\ Cardinality({k \in DOMAIN result.E : result.E[k].Old = i}) = 1
            /\ \A k \in DOMAIN result.E :
                 result.E[k].Old = i =>
                     result.E[k].Status \in {Unchanged, Updated, Removed}
        /\ Count(Unchanged) + Count(Updated) + Count(Removed) = oldFiles

\* Each cur index is the New of at most one match, in the buffers and in
\* the merged result.
C2_AtMostOneClaim ==
    /\ \A m \in CurIdx : Cardinality(ClaimsOf(m)) <= 1
    /\ Done => \A m \in CurIdx :
          Cardinality({k \in DOMAIN result.E :
                          result.E[k].New = m /\ result.E[k].Status \in Matched}) <= 1

\* A step of a worker whose TryMark target is already claimed records no
\* match: it retries the load, goes on to the identity probe, or appends
\* Removed.
C2_LoserStep ==
    \A w \in Workers :
        (InTryMark(w) /\ IsMarked(matches, Target(w)) /\ wpc'[w] # wpc[w]) =>
            \/ /\ wpc'[w] \in {"ident", "exLoad", "idLoad"}
               /\ entries'[w] = entries[w]
            \/ entries'[w] = Append(entries[w], RemovedEntry(wi[w]))

(***************************************************************************)
(* C2: in every interleaving of the Phase-3 workers each cur index m is    *)
(* the New index of at most one Unchanged/Updated entry, and a worker that *)
(* finds its target already claimed records no match for it: it goes on to *)
(* its next probe or appends Removed.                                      *)
(***************************************************************************)
C2_OneWinner == [](C2_AtMostOneClaim) /\ [][C2_LoserStep]_vars

\* Two old entries raced for one cur index: a worker is about to fail its
\* compare-and-swap because another worker's match took the bit after its load.
C2_Witness ==
    \E w \in Workers :
        /\ pc = "match"
        /\ wpc[w] \in {"exCAS", "idCAS"}
        /\ IsMarked(matches, Target(w))
        /\ \E v \in Workers \ {w} : \E k \in DOMAIN entries[v] :
              entries[v][k].New = Target(w)

(***************************************************************************)
(* C3: after diffP returns, a cur index m has an Added entry iff no        *)
(* Unchanged/Updated entry has New = m, it then has exactly one, and       *)
(* Count(Unchanged)+Count(Updated)+Count(Added) = |cur|.                   *)
(***************************************************************************)
C3_AddedIffUnclaimed ==
    Done =>
        /\ \A m \in CurIdx :
            LET added == {k \in DOMAIN result.E :
                            result.E[k].New = m /\ result.E[k].Status = Added}
                claimed == {k \in DOMAIN result.E :
                            result.E[k].New = m /\ result.E[k].Status \in Matched}
            IN /\ (added # {}) <=> (claimed = {})
               /\ Cardinality(added) <= 1
        /\ Count(Unchanged) + Count(Updated) + Count(Added) = newFiles

\* A finished run with two workers that reports both a match and an addition.
C3_Witness ==
    /\ Done
    /\ workers = 2
    /\ \E k \in DOMAIN result.E : result.E[k].Status = Added
    /\ \E k \in DOMAIN result.E : result.E[k].Status \in Matched

(***************************************************************************)
(* C4: every Unchanged entry e has old[e.Old] = cur[e.New] byte for byte,  *)
(* for every hash function, colliding ones included.                       *)
(***************************************************************************)
C4_UnchangedIsByteEqual ==
    /\ \A w \in Workers : \A k \in DOMAIN Buf3(w) :
          Buf3(w)[k].Status = Unchanged =>
              old[Buf3(w)[k].Old + 1] = cur[Buf3(w)[k].New + 1]
    /\ \A k \in DOMAIN result.E :
          result.E[k].Status = Unchanged =>
              old[result.E[k].Old + 1] = cur[result.E[k].New + 1]

\* Under the colliding hash an old entry whose exact key hit another string
\* was not reported Unchanged, while another old entry was.
C4_Witness ==
    /\ Done
    /\ seed = 1
    /\ \E i \in OldIdx :
          /\ ExactKey(i) \in DOMAIN OldMap(i)
          /\ ~SameString(i, OldMap(i)[ExactKey(i)])
          /\ \E k \in DOMAIN result.E :
                result.E[k].Old = i /\ result.E[k].Status # Unchanged
    /\ \E k \in DOMAIN result.E : result.E[k].Status = Unchanged

(***************************************************************************)
(* C5: every Updated entry e has Equal(old[e.Old], cur[e.New]) and         *)
(* old[e.Old] # cur[e.New].                                                *)
(***************************************************************************)
C5_UpdatedIsIdentityNotExact ==
    \A k \in DOMAIN result.E :
        result.E[k].Status = Updated =>
            /\ Equal(old[result.E[k].Old + 1], cur[result.E[k].New + 1])
            /\ old[result.E[k].Old + 1] # cur[result.E[k].New + 1]

(***************************************************************************)
(* C6: if neither old nor cur holds a duplicate string and old[i] is       *)
(* byte-equal to cur[m], diffP reports (i, m, Unchanged).                  *)
(***************************************************************************)
C6_ExactMatchIsUnchanged ==
    (Done /\ NoDup(old) /\ NoDup(cur)) =>
        \A i \in OldIdx : \A m \in CurIdx :
            SameString(i, m) => Reports(i, m, Unchanged)

(***************************************************************************)
(* C7: if old[i] is byte-equal to no cur entry, exactly one cur[m] has     *)
(* Equal(old[i], cur[m]) and no other old entry has that identity, diffP   *)
(* reports (i, m, Updated).                                                *)
(***************************************************************************)
C7_IdentityMatchIsUpdated ==
    Done =>
        \A i \in OldIdx : \A m \in CurIdx :
            ( /\ \A n \in CurIdx : ~SameString(i, n)
              /\ \A n \in CurIdx : SameIdentity(i, n) <=> n = m
              /\ \A h \in OldIdx \ {i} : ~Equal(old[h + 1], old[i + 1]) )
            => Reports(i, m, Updated)

(***************************************************************************)
(* C8: after the merge, Count(s) is the number of entries of Result.E with *)
(* status s, for each of the four statuses, so the counts sum to |E|.      *)
(***************************************************************************)
C8_CountsMatchEntries ==
    Done =>
        /\ \A s \in 0..3 :
             Count(s) = Cardinality({k \in DOMAIN result.E : result.E[k].Status = s})
        /\ Count(Unchanged) + Count(Updated) + Count(Removed) + Count(Added)
             = Len(result.E)

\* A finished run whose result holds entries of at least three statuses.
C8_Witness ==
    /\ Done
    /\ Cardinality({result.E[k].Status : k \in DOMAIN result.E}) >= 3

(***************************************************************************)
(* C9: every entry's indices match its status: Unchanged/Updated have      *)
(* Old < |old| and New < |cur|, neither the sentinel; Removed have         *)
(* Old < |old| and New = sentinel; Added have New < |cur| and              *)
(* Old = sentinel.                                                         *)
(***************************************************************************)
C9_IndicesMatchStatus ==
    \A k \in DOMAIN result.E :
        LET e == result.E[k] IN
        /\ e.Status \in {Unchanged, Updated, Removed, Added}
        /\ e.Status \in Matched =>
              /\ ULt(e.Old, oldFiles) /\ ULt(e.New, newFiles)
              /\ e.Old # null /\ e.New # null
        /\ e.Status = Removed => ULt(e.Old, oldFiles) /\ e.New = null
        /\ e.Status = Added => ULt(e.New, newFiles) /\ e.Old = null

\* A finished run that reports a match, a removal and an addition.
C9_Witness ==
    /\ Done
    /\ \E k \in DOMAIN result.E : result.E[k].Status \in Matched
    /\ \E k \in DOMAIN result.E : result.E[k].Status = Removed
    /\ \E k \in DOMAIN result.E : result.E[k].Status = Added

(***************************************************************************)
(* C10: in Result.E all Unchanged/Updated/Removed entries precede all      *)
(* Added entries, the Old indices of the first group are strictly          *)
(* increasing and so are the New indices of the Added group.               *)
(***************************************************************************)
C10_MergeOrder ==
    \A k, l \in DOMAIN result.E :
        k < l =>
            LET a == result.E[k]
                b == result.E[l]
            IN /\ a.Status = Added => b.Status = Added
               /\ (a.Status # Added /\ b.Status # Added) => a.Old < b.Old
               /\ (a.Status = Added /\ b.Status = Added) => a.New < b.New

\* A finished run of two workers, each of which contributed an entry to
\* each group.
C10_Witness ==
    /\ Done
    /\ workers = 2
    /\ \A w \in Workers : results[w] # <<>> /\ additions[w] # <<>>

(***************************************************************************)
(* C11: with one worker, a repeated diffP call on the same old, cur and    *)
(* seed returns the same entry sequence and the same four counts as the    *)
(* first call, duplicates and shared identities included.                  *)
(***************************************************************************)
C11_OneWorkerDeterministic ==
    (Done /\ prev # <<>> /\ workers = 1) => result = prev[1]

\* A repeated one-worker call has returned, on lists with a duplicate
\* string and a shared identity, with a match in its result.
C11_Witness ==
    /\ Done /\ prev # <<>> /\ workers = 1
    /\ ~NoDup(cur)
    /\ \E i \in OldIdx : \E m \in CurIdx : SameIdentity(i, m) /\ ~SameString(i, m)
    /\ \E k \in DOMAIN result.E : result.E[k].Status \in Matched

(***************************************************************************)
(* C12, as stated: for a fixed W > 1, if no cur entry is compatible        *)
(* (byte-equal or identity-Equal) with more than one old entry, the four   *)
(* counts and the status of each old index are the same in every           *)
(* interleaving.                                                           *)
(***************************************************************************)
C12_Original ==
    (Done /\ prev # <<>> /\ workers > 1 /\ NoAmbiguity) =>
        /\ result.C = prev[1].C
        /\ OldStatus(result) = OldStatus(prev[1])

(***************************************************************************)
(* C12, amended: the same, for calls whose hashes collide on no two cur    *)
(* entries.                                                                *)
(***************************************************************************)
C12_CountsAndStatusStable ==
    (Done /\ prev # <<>> /\ workers > 1 /\ NoAmbiguity /\ CollisionFree) =>
        /\ result.C = prev[1].C
        /\ OldStatus(result) = OldStatus(prev[1])

\* A repeated two-worker call returned the counts and statuses of the first
\* call although it chose another representative for a duplicated cur
\* string, so its entry sequence differs.
C12_Witness ==
    /\ Done /\ prev # <<>> /\ workers > 1 /\ NoAmbiguity /\ CollisionFree
    /\ result.E # prev[1].E
    /\ \E k \in DOMAIN result.E : result.E[k].Status \in Matched

(***************************************************************************)
(* C13, as stated: when the identities are pairwise distinct within old    *)
(* and within cur, a repeated call on the same inputs with the same worker *)
(* count returns exactly the entry sequence of the first call, under any   *)
(* scheduling.                                                             *)
(***************************************************************************)
C13_Original ==
    (Done /\ prev # <<>> /\ DistinctIdentities(old) /\ DistinctIdentities(cur)) =>
        result.E = prev[1].E

(***************************************************************************)
(* C13, amended: the same, for calls whose hashes collide on no two cur    *)
(* entries.                                                                *)
(***************************************************************************)
C13_SameEntrySequence ==
    ( /\ Done /\ prev # <<>>
      /\ DistinctIdentities(old) /\ DistinctIdentities(cur)
      /\ CollisionFree ) =>
        result.E = prev[1].E

\* A repeated two-worker call has returned on two lists of two distinct
\* identities each, with an Updated entry in its result.
C13_Witness ==
    /\ Done /\ prev # <<>> /\ workers = 2
    /\ oldFiles = 2 /\ newFiles = 2
    /\ DistinctIdentities(old) /\ DistinctIdentities(cur)
    /\ CollisionFree
    /\ \E k \in DOMAIN result.E : result.E[k].Status = Updated

(***************************************************************************)
(* C14: when N callers invoke TryMark concurrently on the same bit of a    *)
(* fresh bitset, at most one call has returned true at any time, and once  *)
(* all have returned exactly one returned true and the N - 1 others false, *)
(* in every interleaving of the loads and the compare-and-swaps.           *)
(***************************************************************************)
C14_ExactlyOneWinner ==
    pc = "trymark" =>
        \A k \in DOMAIN ret :
            /\ ret[k].true <= 1
            /\ AllIdle => ret[k].true = 1 /\ ret[k].false = workers - 1

\* Three callers are on the same bit: one has returned true, and another
\* loaded the word before that and is about to fail its compare-and-swap.
C14_Witness ==
    /\ pc = "trymark"
    /\ workers = 3
    /\ \E w \in Workers :
          /\ wpc[w] = "tmCAS"
          /\ IsMarked(matches, TryMarkBit(w))
          /\ ret[wi[w] + 1].true = 1

(***************************************************************************)
(* C15: diffP called with workers < 1 (zero or negative) on a non-empty    *)
(* input does not fail: it goes on as a call with one worker does and      *)
(* reaches its return.                                                     *)
(***************************************************************************)
C15_WorkersClamped ==
    (workers < 1 /\ oldFiles + newFiles > 0) =>
        /\ pc # "panic"
        /\ pc = "populate" => \E w \in DOMAIN wpc : w = 0

(***************************************************************************)
(* C16: if cur is the same list as old, diffP returns Count(Unchanged) =   *)
(* |old| and zero Updated, Removed and Added, for every worker count, also *)
(* when a string occurs more than once in the list.                        *)
(***************************************************************************)
C16_IdenticalInputsUnchanged ==
    (Done /\ cur = old) =>
        /\ Count(Unchanged) = oldFiles
        /\ Count(Updated) = 0
        /\ Count(Removed) = 0
        /\ Count(Added) = 0

(***************************************************************************)
(* C17: if no old entry is byte-equal or identity-Equal to any cur entry,  *)
(* diffP returns exactly |old| Removed entries and |cur| Added entries and *)
(* nothing else, for every worker count and every pair of list lengths,    *)
(* an empty list on either side included.                                  *)
(***************************************************************************)
C17_DisjointInputs ==
    (Done /\ \A i \in OldIdx : \A m \in CurIdx : ~Compatible(i, m)) =>
        /\ Count(Removed) = oldFiles
        /\ Count(Added) = newFiles
        /\ Count(Unchanged) = 0
        /\ Count(Updated) = 0
        /\ Len(result.E) = oldFiles + newFiles

(***************************************************************************)
(* C18: Equal is reflexive and symmetric: Equal(a, a) is true and          *)
(* Equal(a, b) = Equal(b, a), for all byte strings a and b.                *)
(***************************************************************************)
C18_EqualReflexiveSymmetric ==
    pc = "equal" => ret.refl /\ (ret.eq <=> ret.rev)

\* Equal was called on two different strings that match different patterns
\* (Soname and Suffix) and returned true.
C18_Witness ==
    /\ pc = "equal"
    /\ arg.a # arg.b
    /\ Soname(arg.a) > 0
    /\ Soname(arg.b) = 0 /\ Suffix(arg.b) > 0
    /\ ret.eq

(***************************************************************************)
(* C19: whenever Equal(a, b) is true, Hash(a, seed) and Hash(b, seed)      *)
(* return the same identity hash, also when a and b are matched by         *)
(* different patterns.                                                     *)
(***************************************************************************)
C19_EqualImpliesSameIdentityHash ==
    (pc = "hash" /\ Equal(arg.a, arg.b)) => ret.a[1] = ret.b[1]

\* Hash was called, under the collision-free seed, on a Script name and an
\* Embedded name that are Equal, and on no other pair of equal hashes.
C19_Witness ==
    /\ pc = "hash"
    /\ seed = 0
    /\ Script(arg.a)[1] > 0
    /\ Script(arg.b)[1] = 0 /\ Embedded(arg.b)[1] > 0
    /\ Equal(arg.a, arg.b)
    /\ ret.a[2] # ret.b[2]

(***************************************************************************)
(* C20: both values returned by Hash have bit 63 clear, for every input,   *)
(* the XOR-combined split-span case included; so an identity key (the      *)
(* hash) and an exact key (the hash with ExactFlag set) are never equal,   *)
(* and stored in one shard map neither overwrites the other.               *)
(***************************************************************************)
C20_HashClearsExactFlag ==
    pc = "hash" =>
        /\ \A h \in {ret.a[1], ret.a[2], ret.b[1], ret.b[2]} : h.flag = 0
        /\ \A x, y \in {ret.a, ret.b} :
              /\ SetExactFlag(x[2]) # y[1]
              /\ LET m == PutExact(PutIdentity(<<>>, y[1], 0), SetExactFlag(x[2]), 1)
                 IN m[y[1]] = 0 /\ m[SetExactFlag(x[2])] = 1

\* Hash was called on a split-span name whose two span hashes XOR to a
\* value with bit 63 set, and on a name whose whole-string hash has it set.
C20_Witness ==
    /\ pc = "hash"
    /\ Embedded(arg.a)[1] > 0 /\ Soname(arg.a) = 0 /\ Script(arg.a)[1] = 0
    /\ Xor64(Bytes(seed, Slice(arg.a, 0, Embedded(arg.a)[1])),
             Bytes(seed, Slice(arg.a, Embedded(arg.a)[2], Len(arg.a)))).flag = 1
    /\ Bytes(seed, arg.b).flag = 1

(***************************************************************************)
(* C21: for every file list and every worker count W >= 1, W > |files|     *)
(* included, the chunks of HashAll's workers cover every index exactly     *)
(* once, and HashAll returns, after all workers have written, two arrays   *)
(* of length |files| whose i-th elements are Hash(files[i], seed).         *)
(***************************************************************************)
C21_HashAllIndexParallel ==
    /\ pc = "hashing" =>
          \A i \in OldIdx :
              Cardinality({w \in Workers :
                              /\ w * chunkH < oldFiles
                              /\ w * chunkH <= i
                              /\ i < High(w, oldFiles, chunkH)}) = 1
    /\ pc = "hashed" =>
          /\ Len(ret[1]) = oldFiles /\ Len(ret[2]) = oldFiles
          /\ \A i \in OldIdx :
                /\ ret[1][i + 1] = Hash(old[i + 1], seed)[1]
                /\ ret[2][i + 1] = Hash(old[i + 1], seed)[2]
          /\ AllIdle
          /\ ret = HashAll(old, workers, seed)

\* HashAll has returned on a list of two names with more workers than names.
C21_Witness ==
    /\ pc = "hashed"
    /\ oldFiles = 2 /\ workers > oldFiles /\ seed = 0

(***************************************************************************)
(* C22: for every byte string bs, Soname, Suffix, Script, Embedded and     *)
(* Spans return only indices in [0, len(bs)]; when Script or Embedded      *)
(* returns (s, e) with s > 0 then e > s; when Spans returns a second span  *)
(* with s > 0 then s <= e <= len(bs).                                      *)
(***************************************************************************)
C22_IndicesInRange ==
    LET n == Len(arg.a) IN
    /\ pc \in {"soname", "suffix"} => ret \in 0..n
    /\ pc \in {"script", "embedded"} =>
          /\ ret[1] \in 0..n /\ ret[2] \in 0..n
          /\ ret[1] > 0 => ret[2] > ret[1]
    /\ pc = "spans" =>
          /\ ret[1] \in 0..n /\ ret[2] \in 0..n /\ ret[3] \in 0..n
          /\ ret[2] > 0 => (ret[2] <= ret[3] /\ ret[3] <= n)

\* Spans returned a second span for a name that Script matched.
C22_Witness ==
    /\ pc = "spans"
    /\ Script(arg.a)[1] > 0
    /\ ret[2] > 0

\* The first matcher, in the order Soname, Script, Embedded, Suffix, that
\* returns a non-zero position on bs.
FirstMatch(bs) ==
    IF Soname(bs) > 0 THEN "soname"
    ELSE IF Script(bs)[1] > 0 THEN "script"
    ELSE IF Embedded(bs)[1] > 0 THEN "embedded"
    ELSE IF Suffix(bs) > 0 THEN "suffix"
    ELSE "direct"

(***************************************************************************)
(* C23: Spans and Hash select the identity by the same first-match-wins    *)
(* order Soname, Script, Embedded, Suffix, direct.  Spans returns the      *)
(* result of the first matcher that returns a non-zero position, with      *)
(* s = e = 0 for Soname and Suffix and e = len for Script and Embedded,    *)
(* and (len, 0, 0) when none fires; the identity hash is the hash of the   *)
(* spans Spans returns, and is the exact hash when none fires.             *)
(***************************************************************************)
C23_SamePriority ==
    LET a == arg.a
        n == Len(arg.a)
        sp == Spans(arg.a)
        id == IF sp[2] > 0
              THEN Xor64(Bytes(seed, Slice(a, 0, sp[1])), Bytes(seed, Slice(a, sp[2], sp[3])))
              ELSE Bytes(seed, Slice(a, 0, sp[1]))
    IN
    /\ pc = "spans" =>
          /\ FirstMatch(a) = "soname" => ret = <<Soname(a), 0, 0>>
          /\ FirstMatch(a) = "script" => ret = <<Script(a)[1], Script(a)[2], n>>
          /\ FirstMatch(a) = "embedded" => ret = <<Embedded(a)[1], Embedded(a)[2], n>>
          /\ FirstMatch(a) = "suffix" => ret = <<Suffix(a), 0, 0>>
          /\ FirstMatch(a) = "direct" => ret = <<n, 0, 0>>
    /\ pc = "hashserial" =>
          /\ ret[1] = ClearExactFlag(id)
          /\ ret[2] = ClearExactFlag(Bytes(seed, a))
          /\ FirstMatch(a) = "direct" => ret[1] = ret[2]

\* Hash was called, under the collision-free seed, on a name that both
\* Script and Suffix match.
C23_Witness ==
    /\ pc = "hashserial"
    /\ seed = 0
    /\ Script(arg.a)[1] > 0
    /\ Suffix(arg.a) > 0
    /\ ret[1] # ret[2]

\* The pairs All is to yield: one per entry, in the order of E.
AllPairs == [k \in DOMAIN result.E |-> <<result.E[k].Status % 256, result.E[k]>>]

\* The consumer is inside, or has left, a loop over the iterator.
Ranging == pc \in {"all", "filter", "stopped", "finished"}

\* All yields the pairs of the entries in the order of E, ends as soon as
\* the consumer has answered false, yields all |E| pairs otherwise, and
\* yields the same sequence when ranged over again.
C24_AllYields ==
    (Ranging /\ arg.fn = "All") =>
        /\ Len(ret.out) <= Len(result.E)
        /\ ret.out = SubSeq(AllPairs, 1, Len(ret.out))
        /\ ret.stopped => (pc = "stopped" /\ Len(ret.out) = ret.pos + 1)
        /\ pc = "finished" =>
              /\ ret.out = AllPairs
              /\ prev # <<>> => ret.out = prev[1]

(***************************************************************************)
(* C24: Result.All yields exactly |E| pairs, one per entry in the order of *)
(* E, each with status = entry.Status & 0xFF; a second iteration yields    *)
(* the same sequence; it stops as soon as the consumer stops; and it       *)
(* leaves the Result unchanged.                                            *)
(***************************************************************************)
C24_AllIterator == [](C24_AllYields) /\ [][result' = result]_vars

\* All has been ranged over to its end for the second time, over three
\* entries of which one has a bit above its low byte set.
C24_Witness ==
    /\ pc = "finished" /\ arg.fn = "All" /\ prev # <<>>
    /\ Len(result.E) = 3
    /\ \E k \in DOMAIN result.E : result.E[k].Status > 255

\* The Result is one that Diff produces: its statuses are the four diffP
\* writes.
FromDiff == \A k \in DOMAIN result.E : result.E[k].Status \in 0..3

\* The entries Filter(s) is to yield: those of status s, in the order of E.
Selected(s) ==
    LET Pick(e) == e.Status % 256 = s IN SelectSeq(result.E, Pick)

(***************************************************************************)
(* C25: for every Result produced by Diff and every status s, Filter(s)    *)
(* yields exactly the entries of E whose decoded status is s, in the order *)
(* of E, so that their number is Count(s); when the consumer stops early   *)
(* the iteration ends without yielding further entries.                    *)
(***************************************************************************)
C25_FilterYields ==
    (Ranging /\ arg.fn = "Filter" /\ FromDiff) =>
        /\ ret.out = SubSeq(Selected(arg.s), 1, Len(ret.out))
        /\ ret.stopped => pc = "stopped"
        /\ pc = "finished" =>
              /\ ret.out = Selected(arg.s)
              /\ Len(ret.out) = Count(arg.s)

\* Filter(Updated) was stopped by its consumer at the first of two Updated
\* entries, after it had skipped an entry of another status.
C25_Witness ==
    /\ pc = "stopped" /\ arg.fn = "Filter" /\ arg.s = Updated /\ FromDiff
    /\ Len(ret.out) = 1
    /\ ret.pos = 1
    /\ Len(Selected(Updated)) = 2

\* The Results of the concurrent invocations that have returned.
Returns ==
    {r \in {result, arg.result} :
        \/ (r = result /\ pc = "done")
        \/ (r = arg.result /\ arg.pc = "done")}

\* The counts of every returned Result sum to the number of its entries.
C26_CountsSum ==
    \A r \in Returns : r.C[Unchanged] + r.C[Updated] + r.C[Removed] + r.C[Added] = Len(r.E)

(***************************************************************************)
(* C26: the Result of every one of the concurrent invocations of Diff has  *)
(* counts that sum to |E| and Unchanged + Updated + Removed = |old|,       *)
(* whatever the interleaving, and no step writes the seed they share.      *)
(***************************************************************************)
C26_ConcurrentInvariants ==
    /\ C26_CountsSum
    /\ \A r \in Returns : r.C[Unchanged] + r.C[Updated] + r.C[Removed] = oldFiles

\* Phase 2 is over and the shard maps are still in use.
Populated == pc \in {"match", "additions"}

\* The shard map that holds the keys of cur index j.
ShardOf(j) == ShardMap(ShardIdx(curHashes[j + 1]))

\* The least and the greatest of a non-empty set of indices.
Lowest(S) == CHOOSE k \in S : \A n \in S : k <= n
Highest(S) == CHOOSE k \in S : \A n \in S : k >= n

\* With one worker the identity key of every cur entry maps to the lowest
\* cur index of that identity hash.
C27_IdentityLowest ==
    (workers = 1 /\ Populated) =>
        \A j \in CurIdx :
            /\ curHashes[j + 1] \in DOMAIN ShardOf(j)
            /\ ShardOf(j)[curHashes[j + 1]]
                 = Lowest({k \in CurIdx : curHashes[k + 1] = curHashes[j + 1]})

\* C27 as stated: with one worker, after Phase 2 the identity key of each
\* identity hash maps to the lowest cur index of that identity hash and the
\* exact key of each string maps to the highest cur index holding that
\* string.
C27_Original ==
    /\ C27_IdentityLowest
    /\ (workers = 1 /\ Populated) =>
        \A j \in CurIdx :
            /\ SetExactFlag(curEntries[j + 1]) \in DOMAIN ShardOf(j)
            /\ ShardOf(j)[SetExactFlag(curEntries[j + 1])]
                 = Highest({k \in CurIdx : cur[k + 1] = cur[j + 1]})

(***************************************************************************)
(* C27: with one population worker, after Phase 2 the identity key of each *)
(* identity hash maps to the lowest cur index of that identity hash, and   *)
(* the exact key of each string maps to the highest cur index whose exact  *)
(* hash is that of the string and whose keys lie in the same shard; that   *)
(* index holds the string itself when no two cur entries collide.          *)
(***************************************************************************)
C27_OneWorkerKeys ==
    /\ C27_IdentityLowest
    /\ (workers = 1 /\ Populated) =>
        \A j \in CurIdx :
            LET same == {k \in CurIdx :
                            /\ curEntries[k + 1] = curEntries[j + 1]
                            /\ ShardIdx(curHashes[k + 1]) = ShardIdx(curHashes[j + 1])}
            IN /\ SetExactFlag(curEntries[j + 1]) \in DOMAIN ShardOf(j)
               /\ ShardOf(j)[SetExactFlag(curEntries[j + 1])] = Highest(same)
               /\ CollisionFree => cur[Highest(same) + 1] = cur[j + 1]

\* One worker has populated the shards from two different cur entries of
\* one identity hash.
C27_Witness ==
    /\ workers = 1 /\ Populated /\ seed = 0
    /\ newFiles = 2
    /\ curHashes[1] = curHashes[2]
    /\ cur[1] # cur[2]

\* Where the workers of each phase can be.
Labels2 == {"lock", "store"}
Labels3 == {"exact", "exLoad", "exCAS", "ident", "idLoad", "idCAS"}
Labels4 == {"scan"}

\* No worker of any phase is running.
Joined == \A w \in Workers : wpc[w] = "idle"

\* The workers of a phase run only while the caller waits at that phase's
\* join: a shard-map writer (Phase 2) and a shard-map reader (Phase 3), or a
\* bitset writer (Phase 3) and a Phase-4 reader, never run together.
C28_WorkersInPhase ==
    \A w \in Workers :
        /\ wpc[w] \in Labels2 => pc = "populate"
        /\ wpc[w] \in Labels3 => pc = "match"
        /\ wpc[w] \in Labels4 => pc = "additions"

\* The caller moves on in the order of the phases, past a join only when
\* every worker of the phase has finished; the shard maps change only in
\* Phase 2.
C28_Barrier ==
    /\ pc' # pc =>
          /\ <<pc, pc'>> \in {<<"start", "done">>, <<"start", "populate">>,
                              <<"populate", "match">>, <<"match", "additions">>,
                              <<"additions", "done">>}
          /\ Joined
    /\ shards' # shards => (pc = "populate" /\ pc' = "populate")

(***************************************************************************)
(* C28: the phases are totally ordered by their join barriers: no Phase-3  *)
(* worker runs before every Phase-2 worker has finished, no Phase-4 worker *)
(* before every Phase-3 worker has finished, the merge starts only after   *)
(* every Phase-4 worker has finished, and no shard-map writer runs         *)
(* together with a reader.                                                 *)
(***************************************************************************)
C28_PhasesOrdered == [](C28_WorkersInPhase) /\ [][C28_Barrier]_vars

\* Two workers are in Phase 3 after two workers populated the shards.
C28_Witness ==
    /\ pc = "match" /\ workers = 2 /\ newFiles = 2
    /\ \A w \in Workers : wpc[w] \in Labels3

\* The shard whose lock population worker w asks for or holds.
ShardAt(w) == ShardIdx(curHashes[wi[w] + 1])

\* At most one worker is inside the critical section of a shard, and it
\* holds the lock of that shard.
C29_OneInside ==
    pc = "populate" =>
        \A w \in Workers :
            wpc[w] = "store" =>
                /\ ShardAt(w) \in locked
                /\ \A v \in Workers \ {w} :
                      wpc[v] = "store" => ShardAt(v) # ShardAt(w)

\* Every change of the shard maps is one critical section of a population
\* worker, on the shard of its cur index i: the locked shard alone changes,
\* its identity key is there afterwards (with i when it was absent, as it
\* was otherwise), its exact key maps to i, and the lock is released.
C29_OneSection ==
    shards' # shards =>
        \E w \in Workers :
            LET i == wi[w]
                s == ShardAt(w)
                idKey == curHashes[i + 1]
                exKey == SetExactFlag(curEntries[i + 1])
            IN /\ pc = "populate" /\ wpc[w] = "store" /\ wpc'[w] # "store"
               /\ s \in locked /\ locked' = locked \ {s}
               /\ \A x \in DOMAIN shards \ {s} : shards'[x] = shards[x]
               /\ idKey \in DOMAIN shards'[s]
               /\ shards'[s][idKey] = IF idKey \in DOMAIN ShardMap(s)
                                      THEN ShardMap(s)[idKey] ELSE i
               /\ exKey \in DOMAIN shards'[s]
               /\ shards'[s][exKey] = i

(***************************************************************************)
(* C29: during Phase 2 at most one worker at a time is inside the critical *)
(* section of a given shard; for each cur index the insert-if-absent of    *)
(* the identity key and the write of the exact key happen inside one       *)
(* critical section of the same shard; the shard maps are written nowhere  *)
(* else.                                                                   *)
(***************************************************************************)
C29_ShardLock == [](C29_OneInside) /\ [][C29_OneSection]_vars

\* A worker is inside a shard's critical section while another one waits
\* for the lock of the same shard.
C29_Witness ==
    /\ pc = "populate"
    /\ \E w \in Workers : \E v \in Workers \ {w} :
          /\ wpc[w] = "store" /\ wpc[v] = "lock"
          /\ ShardAt(v) = ShardAt(w)

\* Phase 3 has been joined and diffP's bitset is in place.
AfterJoin3 == pc = "additions" \/ (pc = "done" /\ matches # <<>>)

\* Bit m is set iff exactly one match in the Phase-3 buffers has New = m.
C30_BitIffOneClaim ==
    AfterJoin3 =>
        \A m \in CurIdx :
            (BitPos(m) \in matches[WordIdx(m)]) <=> Cardinality(ClaimsOf(m)) = 1

(***************************************************************************)
(* C30: from the Phase-3 join until diffP returns, bit m of the claim      *)
(* bitset is set iff exactly one Unchanged/Updated entry in the per-worker *)
(* buffers has New = m; Phase 4 only reads the bitset and never changes    *)
(* it.                                                                     *)
(***************************************************************************)
C30_BitsetFrozen ==
    [](C30_BitIffOneClaim) /\ [][pc = "additions" => matches' = matches]_vars

\* A Phase-4 worker scans a bitset with a set and a clear bit, set by a
\* Phase 3 of two workers.
C30_Witness ==
    /\ pc = "additions" /\ workers = 2
    /\ \E w \in Workers : wpc[w] = "scan"
    /\ \E m \in CurIdx : IsMarked(matches, m)
    /\ \E m \in CurIdx : ~IsMarked(matches, m)

\* The bitset v with bit j set and nothing else changed.
WithBit(v, j) == [v EXCEPT ![WordIdx(j)] = v[WordIdx(j)] \cup {BitPos(j)}]

\* A step of Phase 3 that changes the bitset is the compare-and-swap of one
\* TryMark call, and it sets the bit of that call, which was clear, and
\* alters no other bit of any word.
C31_OnlyOwnBit ==
    (pc = "match" /\ matches' # matches) =>
        \E w \in Workers :
            /\ wpc[w] \in {"exCAS", "idCAS"}
            /\ ~(BitPos(Target(w)) \in matches[WordIdx(Target(w))])
            /\ matches' = WithBit(matches, Target(w))

\* Once a TryMark(j) has returned true (a match with New = j is recorded)
\* bit j is set ...
C31_StaysMarked ==
    pc = "match" =>
        \A m \in CurIdx :
            ClaimsOf(m) # {} => BitPos(m) \in matches[WordIdx(m)]

\* ... and no later TryMark(j) returns true.
C31_NoSecondTrue ==
    (pc = "match" /\ pc' = "match") =>
        \A m \in CurIdx : ClaimsOf(m) # {} => ClaimsOf(m)' = ClaimsOf(m)

(***************************************************************************)
(* C31: TryMark(v, j) changes at most bit j of word j>>6, and only from 0  *)
(* to 1: no bit is cleared and no other bit is altered, also when          *)
(* compare-and-swaps on different bits of one word interleave; once        *)
(* TryMark(j) has returned true, IsMarked(j) is true and every later       *)
(* TryMark(j) returns false.                                               *)
(***************************************************************************)
C31_TryMarkFrame ==
    /\ [](C31_StaysMarked)
    /\ [][C31_OnlyOwnBit /\ C31_NoSecondTrue]_vars

\* A worker is about to fail its compare-and-swap on a bit that is still
\* clear, because another worker has set another bit of the same word since
\* its load: it will load again and succeed.
C31_Witness ==
    /\ pc = "match"
    /\ \E w \in Workers :
          /\ wpc[w] \in {"exCAS", "idCAS"}
          /\ ~IsMarked(matches, Target(w))
          /\ matches[WordIdx(Target(w))] # tmOld[w]

(***************************************************************************)
(* C32: under fair scheduling every diffP call with W >= 1 terminates and  *)
(* returns a Result: the worker loops are bounded, every join is released, *)
(* no shard lock is held forever and every TryMark call returns.           *)
(***************************************************************************)
C32_Terminates == <>(pc = "done" /\ AllIdle /\ locked = {})

\* A call with two workers has returned after both of its Phase-3 workers
\* went through TryMark on bits of one word.
C32_Witness ==
    /\ pc = "done" /\ workers = 2
    /\ Cardinality({m \in CurIdx : IsMarked(matches, m)}) = 2
    /\ \A w \in Workers : results[w] # <<>>

\* The shard table that the cur indices 0..n-1, taken in this order, leave.
RECURSIVE InOrder(_)
InOrder(n) ==
    IF n = 0 THEN <<>>
    ELSE LET t == InOrder(n - 1)
             i == n - 1
             s == ShardIdx(curHashes[i + 1])
             idKey == curHashes[i + 1]
             exKey == SetExactFlag(curEntries[i + 1])
             m0 == IF s \in DOMAIN t THEN t[s] ELSE <<>>
             m1 == IF idKey \in DOMAIN m0 THEN m0
                   ELSE [x \in DOMAIN m0 \cup {idKey} |-> IF x = idKey THEN i ELSE m0[x]]
             m2 == [x \in DOMAIN m1 \cup {exKey} |-> IF x = exKey THEN i ELSE m1[x]]
         IN [x \in DOMAIN t \cup {s} |-> IF x = s THEN m2 ELSE t[x]]

\* key is the identity hash of two or more cur entries.
SharedIdentity(key) ==
    Cardinality({k \in CurIdx : curHashes[k + 1] = key}) >= 2

(***************************************************************************)
(* C33: with W > 1 workers the shard table left by Phase 2 is the same in  *)
(* every interleaving (the one in which the workers run one after another  *)
(* in the order of their chunks included), except for the values under     *)
(* identity keys shared by two or more cur entries: every other key, every *)
(* exact key included, maps to the same cur index.                         *)
(***************************************************************************)
C33_SameShardTable ==
    (workers > 1 /\ Populated) =>
        /\ DOMAIN shards = DOMAIN InOrder(newFiles)
        /\ \A s \in DOMAIN shards :
              /\ DOMAIN shards[s] = DOMAIN InOrder(newFiles)[s]
              /\ \A key \in DOMAIN shards[s] :
                    ~SharedIdentity(key) => shards[s][key] = InOrder(newFiles)[s][key]

\* What does hold: the keys are the same in every interleaving, and so is
\* the value of every key that a single cur entry writes.
C33_SingleWriterKeys ==
    (workers > 1 /\ Populated) =>
        /\ DOMAIN shards = DOMAIN InOrder(newFiles)
        /\ \A s \in DOMAIN shards :
              /\ DOMAIN shards[s] = DOMAIN InOrder(newFiles)[s]
              /\ \A key \in DOMAIN shards[s] :
                    Cardinality({k \in CurIdx :
                                    \/ curHashes[k + 1] = key
                                    \/ SetExactFlag(curEntries[k + 1]) = key}) = 1
                        => shards[s][key] = InOrder(newFiles)[s][key]

\* A worker that entered TryMark where the test would have kept it out
\* still finds the bit set: bits are never cleared.
C34_SkippedBitIsSet ==
    \A w \in Workers :
        wpc[w] = "idSkip" =>
            /\ pc = "match"
            /\ BitPos(Target(w)) \in matches[WordIdx(Target(w))]

\* What the variant does where diffP's test finds the bit set amounts to the
\* one step diffP takes there: entering TryMark changes nothing but the
\* worker's place, and the worker's next step records the removal of its
\* old index, sets no bit, and goes to the next index.
C34_SkipIsRemoval ==
    \A w \in Workers :
        /\ (wpc[w] = "ident" /\ wpc'[w] = "idSkip") =>
              /\ IdentityKey(wi[w]) \in DOMAIN OldMap(wi[w])
              /\ UNCHANGED <<matches, wi, tmOld, entries, status, results, counts,
                             additions, result, pc, shards>>
        /\ (wpc[w] = "idSkip" /\ wpc'[w] # "idSkip") =>
              /\ Record3(w, RemovedEntry(wi[w]))
              /\ UNCHANGED <<matches, additions, result, pc, shards>>

(***************************************************************************)
(* C34: the IsMarked test before the identity-path TryMark is only a fast  *)
(* path: in Phase 3 without that test, a worker that passes the place of   *)
(* the test with the bit set takes two steps whose effect is the one step  *)
(* of diffP (the old index is recorded Removed and no bit changes), and    *)
(* every other step is the same, so that the possible results (entries and *)
(* counts) are the same for every input, worker count and interleaving.    *)
(***************************************************************************)
C34_FastPathOnly == [](C34_SkippedBitIsSet) /\ [][C34_SkipIsRemoval]_vars

\* A worker of the variant is inside TryMark for an identity representative
\* that the other worker has claimed: the test would have kept it out.
C34_Witness ==
    /\ pc = "match" /\ workers = 2
    /\ \E w \in Workers :
          /\ wpc[w] = "idSkip"
          /\ \E v \in Workers \ {w} : \E k \in DOMAIN entries[v] :
                entries[v][k].New = Target(w)

\* The cur index stored under the identity key of old index i.
Representative(i) ==
    ShardMap(ShardIdx(oldHashes[i + 1]))[oldHashes[i + 1]]

\* The Updated entries recorded so far by the Phase-3 workers.
UpdatedSoFar ==
    UNION {{Buf3(w)[k] : k \in {n \in DOMAIN Buf3(w) : Buf3(w)[n].Status = Updated}} :
           w \in Workers}

\* The New of every Updated entry is the index stored under the identity key
\* of its old file; at most one cur index per identity hash is the target of
\* an Updated entry, and Count(Updated) is at most the number of distinct
\* identity hashes in cur.
C35_UpdatedIsRepresentative ==
    /\ pc \in {"match", "additions", "done"} =>
          /\ \A e \in UpdatedSoFar :
                /\ oldHashes[e.Old + 1] \in DOMAIN ShardMap(ShardIdx(oldHashes[e.Old + 1]))
                /\ e.New = Representative(e.Old)
          /\ \A e, f \in UpdatedSoFar :
                curHashes[e.New + 1] = curHashes[f.New + 1] => e.New = f.New
    /\ Done =>
          /\ Count(Updated) <= Cardinality({curHashes[m + 1] : m \in CurIdx})
          /\ \A k \in DOMAIN result.E :
                (result.E[k].Status = Updated) => (result.E[k] \in UpdatedSoFar)

\* Of two old files of one identity the first took the representative and
\* the second is recorded Removed, while another cur entry of the same
\* identity is left over and reported Added.
C35_RemovedBesideUnclaimed ==
    /\ Done
    /\ \E a, b, c \in DOMAIN result.E :
          /\ result.E[a].Status = Updated
          /\ result.E[b].Status = Removed
          /\ result.E[c].Status = Added
          /\ Equal(old[result.E[b].Old + 1], cur[result.E[c].New + 1])
          /\ Representative(result.E[b].Old) = result.E[a].New

\* Old index i has a representative, and the match that claimed it belongs
\* to another old index.
RepresentativeTaken(i) ==
    /\ oldHashes[i + 1] \in DOMAIN ShardMap(ShardIdx(oldHashes[i + 1]))
    /\ \E k \in DOMAIN result.E :
          /\ result.E[k].Status \in Matched
          /\ result.E[k].New = Representative(i)
          /\ result.E[k].Old # i

(***************************************************************************)
(* C35: the New of every Updated entry is the index stored under the       *)
(* identity key of its old file, so that at most one cur index per         *)
(* identity hash is the target of an Updated entry and Count(Updated) is   *)
(* at most the number of distinct identity hashes in cur; an old file      *)
(* whose representative is claimed by another old file, and which has no   *)
(* exact match, is recorded Removed, also when another cur entry of its    *)
(* identity is unclaimed.                                                  *)
(***************************************************************************)
C35_RepresentativeOnly ==
    /\ C35_UpdatedIsRepresentative
    /\ Done =>
          \A i \in OldIdx :
              (RepresentativeTaken(i) /\ \A m \in CurIdx : ~SameString(i, m)) =>
                  \E k \in DOMAIN result.E : result.E[k] = RemovedEntry(i)

\* The call with one worker has returned after the call with W workers.
BothReturned == Done /\ prev # <<>>

(***************************************************************************)
(* C36: when the identities are pairwise distinct within old and within    *)
(* cur, diffP(old, cur, W) returns the same entry sequence and the same    *)
(* counts as diffP(old, cur, 1), for every W >= 1 and all list lengths.    *)
(***************************************************************************)
C36_SameAsOneWorker ==
    (BothReturned /\ DistinctIdentities(old) /\ DistinctIdentities(cur)) =>
        result = prev[1]

\* The same for the calls in which Phase 3 reaches every old index with W
\* workers and with one, and no two hashes of cur entries collide.
C36_WhereAllOldReached ==
    ( /\ BothReturned /\ DistinctIdentities(old) /\ DistinctIdentities(cur)
      /\ CollisionFree
      /\ oldFiles <= arg.workers * ChunkOf(newFiles, arg.workers)
      /\ oldFiles <= ChunkOf(newFiles, 1) ) =>
        result = prev[1]

\* The indices i, 3 <= i <= len-2, with ".so." at bs[i-3..i] and an ASCII
\* digit at bs[i+1].
SonameAt(bs) ==
    {i \in 3..(Len(bs) - 2) :
        /\ SubSeq(bs, i - 2, i + 1) = <<46, 115, 111, 46>>
        /\ bs[i + 2] \in 48..57}

(***************************************************************************)
(* C37: Soname(bs) returns the largest index i with 3 <= i <= len-2 such   *)
(* that bs[i-3..i] is ".so." and bs[i+1] is an ASCII digit, and 0 when     *)
(* there is none: 9 for "libfoo.so.1", 0 for "libfoo.so", 3 for ".so.1".   *)
(***************************************************************************)
C37_SonameLargest ==
    pc = "soname" =>
        /\ ret = IF SonameAt(arg.a) = {} THEN 0
                 ELSE CHOOSE i \in SonameAt(arg.a) : \A k \in SonameAt(arg.a) : k <= i
        /\ arg.a = <<108, 105, 98, 102, 111, 111, 46, 115, 111, 46, 49>> => ret = 9
        /\ arg.a = <<108, 105, 98, 102, 111, 111, 46, 115, 111>> => ret = 0
        /\ arg.a = <<46, 115, 111, 46, 49>> => ret = 3

\* Soname has returned the second of two ".so.N" of a name.
C37_Witness ==
    /\ pc = "soname"
    /\ Cardinality(SonameAt(arg.a)) = 2
    /\ ret = 8

\* A version character: a digit, '.', '-', '+' or an ASCII letter.
VersionChar(c) ==
    c \in (48..57) \cup {46, 45, 43} \cup (65..90) \cup (97..122)

\* The indices i with '-' at bs[i], a digit at bs[i+1] and only version
\* characters after bs[i].
SuffixAt(bs) ==
    {i \in 0..(Len(bs) - 2) :
        /\ bs[i + 1] = 45
        /\ bs[i + 2] \in 48..57
        /\ \A k \in (i + 2)..Len(bs) : VersionChar(bs[k])}

(***************************************************************************)
(* C38: Suffix(bs) walks backward from the end over version characters     *)
(* and returns the first index i it reaches with bs[i] = '-' and bs[i+1] a *)
(* digit, or 0 when it meets a non-version byte or the start first; a      *)
(* trailing "-rN" does not change the result:                              *)
(* Suffix("app-1.0.0-r5") = Suffix("app-1.0.0") = 3, Suffix("foo-bar") = 0.*)
(***************************************************************************)
C38_SuffixFirstReached ==
    pc = "suffix" =>
        /\ ret = IF SuffixAt(arg.a) = {} THEN 0
                 ELSE CHOOSE i \in SuffixAt(arg.a) : \A k \in SuffixAt(arg.a) : k <= i
        /\ Suffix(arg.a \o <<45, 114, 49>>) = ret
        /\ Suffix(arg.a \o <<45, 114, 49, 49>>) = ret
        /\ arg.a = <<97, 112, 112, 45, 49, 46, 48, 46, 48, 45, 114, 53>> => ret = 3
        /\ arg.a = <<97, 112, 112, 45, 49, 46, 48, 46, 48>> => ret = 3
        /\ arg.a = <<102, 111, 111, 45, 98, 97, 114>> => ret = 0

\* Suffix has returned the index of the "-N" before a trailing "-rN".
C38_Witness ==
    /\ pc = "suffix"
    /\ Len(arg.a) >= 5
    /\ SubSeq(arg.a, Len(arg.a) - 2, Len(arg.a) - 1) = <<45, 114>>
    /\ arg.a[Len(arg.a)] \in 48..57
    /\ ret > 0

====
